---- MODULE Spec2Model ----
(***************************************************************************)
(* Photo app: multi-category auto-classification, person identity          *)
(* registry and collection fan-out.                                        *)
(*                                                                         *)
(* Strings are TLA+ strings; characters are one-character strings.         *)
(* Embedding elements are integers (exact JavaScript numbers).  Dates are  *)
(* left out of the documents: no modelled operation reads them.            *)
(***************************************************************************)
EXTENDS Integers, Sequences, FiniteSets, TLC

null == "null"

Min(S) == CHOOSE x \in S : \A y \in S : x <= y

(***************************************************************************)
(* JavaScript string primitives                                            *)
(***************************************************************************)
UPPER == "ABCDEFGHIJKLMNOPQRSTUVWXYZ"

LOWER == "abcdefghijklmnopqrstuvwxyz"

DIGITS == "0123456789"

CharAt(s, i) == SubSeq(s, i, i)

InStr(c, s) == \E i \in 1..Len(s) : CharAt(s, i) = c

IndexIn(c, s) == CHOOSE i \in 1..Len(s) : CharAt(s, i) = c

\* the punctuation characters of the file names, with their character codes
PUNCT == " ()-._"

PunctCodes == <<32, 40, 41, 45, 46, 95>>

\* String.prototype.charCodeAt for a one-character string
charCodeAt(c) ==
    IF InStr(c, DIGITS) THEN 47 + IndexIn(c, DIGITS)
    ELSE IF InStr(c, UPPER) THEN 64 + IndexIn(c, UPPER)
    ELSE IF InStr(c, LOWER) THEN 96 + IndexIn(c, LOWER)
    ELSE PunctCodes[IndexIn(c, PUNCT)]

ToLowerChar(c) == IF InStr(c, UPPER) THEN CharAt(LOWER, IndexIn(c, UPPER)) ELSE c

RECURSIVE toLowerCase(_)
toLowerCase(s) == IF s = "" THEN "" ELSE ToLowerChar(Head(s)) \o toLowerCase(Tail(s))

\* s.replace(/[_\-\.]/g, ' ')
RECURSIVE ReplaceSeparators(_)
ReplaceSeparators(s) ==
    IF s = "" THEN ""
    ELSE (IF Head(s) \in {"_", "-", "."} THEN " " ELSE Head(s)) \o ReplaceSeparators(Tail(s))

\* String.prototype.includes
includes(s, sub) ==
    \E i \in 1..(Len(s) - Len(sub) + 1) : SubSeq(s, i, i + Len(sub) - 1) = sub

\* String.prototype.trim (only the space character occurs in the inputs)
RECURSIVE TrimLeft(_)
TrimLeft(s) == IF s # "" /\ Head(s) = " " THEN TrimLeft(Tail(s)) ELSE s

RECURSIVE TrimRight(_)
TrimRight(s) ==
    IF s # "" /\ CharAt(s, Len(s)) = " " THEN TrimRight(SubSeq(s, 1, Len(s) - 1)) ELSE s

trim(s) == TrimRight(TrimLeft(s))

\* the regular-expression class \w
IsWordChar(c) == InStr(c, UPPER) \/ InStr(c, LOWER) \/ InStr(c, DIGITS) \/ c = "_"

IsWordAt(s, i) == i >= 1 /\ i <= Len(s) /\ IsWordChar(CharAt(s, i))

\* the assertion \b between positions p-1 and p of s
WordBoundary(s, p) == IsWordAt(s, p - 1) # IsWordAt(s, p)

\* All non-empty substrings of s, and those that lie between two word
\* boundaries: the strings k for which s.includes(k), and the strings k of
\* letters and spaces for which new RegExp('\\b' + k + '\\b', 'i').test(s),
\* when s is lower-cased.
Substrings(s) == {SubSeq(s, i, j) : i \in 1..Len(s), j \in 1..Len(s)} \ {""}

WordBoundedSubstrings(s) ==
    LET starts == {i \in 1..Len(s) : WordBoundary(s, i)}
        ends   == {j \in 1..Len(s) : WordBoundary(s, j + 1)}
    IN {SubSeq(s, i, j) : i \in starts, j \in ends} \ {""}

\* KEYWORDS.vehicle.types
KEYWORDS_vehicle_types ==
    <<
      "car", "vehicle", "auto", "automobile", "truck", "bike", "bicycle", "motorcycle",
      "motorbike", "bus", "van", "suv", "jeep", "taxi", "cab", "scooter", "moped", "tractor",
      "trailer", "ambulance", "firetruck", "police", "lorry", "pickup", "sedan", "hatchback",
      "convertible", "coupe", "wagon", "minivan", "limousine", "roadster", "sports car"
    >>

\* KEYWORDS.vehicle.brands
KEYWORDS_vehicle_brands ==
    <<
      "tesla", "bmw", "audi", "honda", "toyota", "ford", "mercedes", "benz", "volkswagen",
      "vw", "nissan", "hyundai", "kia", "chevrolet", "chevy", "mazda", "subaru", "lexus",
      "infiniti", "acura", "porsche", "ferrari", "lamborghini", "maserati", "bentley", "rolls",
      "royce", "jaguar", "land rover", "range rover", "volvo", "saab", "peugeot", "renault",
      "fiat", "alfa romeo", "chrysler", "dodge", "jeep", "ram", "gmc", "cadillac", "buick",
      "lincoln", "suzuki", "mitsubishi", "isuzu", "daihatsu", "tata", "mahindra", "maruti",
      "skoda", "seat", "mini", "smart", "genesis", "rivian", "lucid", "polestar", "harley",
      "ducati", "yamaha", "kawasaki", "ktm", "triumph", "royal enfield", "bajaj", "hero", "tvs"
    >>

\* KEYWORDS.vehicle.related
KEYWORDS_vehicle_related ==
    <<
      "driving", "drive", "rode", "riding", "parked", "parking", "garage", "highway", "road",
      "traffic", "wheel", "tire", "engine", "dashboard", "steering", "saveclip", "carshow",
      "autoshow", "dealership", "showroom", "roadtrip", "carwash"
    >>

\* KEYWORDS.pet.dogs
KEYWORDS_pet_dogs ==
    <<
      "dog", "puppy", "pup", "doggy", "doggie", "canine", "hound", "mutt", "labrador", "lab",
      "retriever", "golden", "german shepherd", "shepherd", "gsd", "bulldog", "french bulldog",
      "frenchie", "poodle", "beagle", "husky", "malamute", "corgi", "pug", "boxer",
      "rottweiler", "doberman", "dalmatian", "chihuahua", "yorkie", "yorkshire", "shih tzu",
      "maltese", "pomeranian", "pom", "dachshund", "weiner", "pitbull", "pit bull", "terrier",
      "collie", "border collie", "aussie", "australian shepherd", "cocker spaniel", "spaniel",
      "mastiff", "great dane", "saint bernard", "bernese", "newfoundland", "akita", "shiba",
      "chow", "samoyed", "vizsla", "weimaraner", "pointer", "setter", "basset", "bloodhound",
      "greyhound", "whippet", "bichon", "havanese", "lhasa", "schnauzer", "airedale", "westie",
      "scottie", "cairn", "jack russell", "papillon", "pekingese", "cavalier", "boston"
    >>

\* KEYWORDS.pet.cats
KEYWORDS_pet_cats ==
    <<
      "cat", "kitten", "kitty", "kittycat", "feline", "meow", "persian", "siamese",
      "maine coon", "ragdoll", "bengal", "abyssinian", "sphynx", "british shorthair",
      "scottish fold", "russian blue", "birman", "burmese", "oriental", "himalayan", "turkish",
      "norwegian", "siberian", "american shorthair", "exotic", "devon rex", "cornish rex",
      "manx", "tabby"
    >>

\* KEYWORDS.pet.others
KEYWORDS_pet_others ==
    <<
      "pet", "animal", "bird", "parrot", "parakeet", "budgie", "cockatiel", "macaw", "canary",
      "finch", "cockatoo", "lovebird", "conure", "rabbit", "bunny", "hamster", "guinea pig",
      "gerbil", "mouse", "rat", "ferret", "fish", "goldfish", "betta", "aquarium", "turtle",
      "tortoise", "lizard", "gecko", "iguana", "snake", "python", "frog", "toad",
      "hermit crab", "horse", "pony", "mare", "stallion", "foal", "equine", "cow", "calf",
      "bull", "goat", "sheep", "lamb", "pig", "piglet", "chicken", "hen", "rooster", "duck",
      "goose", "turkey", "donkey", "mule", "llama", "alpaca"
    >>

\* KEYWORDS.pet.related
KEYWORDS_pet_related ==
    <<
      "fauna", "creature", "furry", "paw", "tail", "whiskers", "collar", "leash", "fetch",
      "bark", "woof", "meowing", "purr", "vet", "petshop", "adoption", "rescue"
    >>

\* KEYWORDS.nature.landscapes
KEYWORDS_nature_landscapes ==
    <<
      "nature", "landscape", "scenery", "scenic", "vista", "panorama", "view", "mountain",
      "hill", "peak", "summit", "cliff", "canyon", "valley", "gorge", "beach", "coast",
      "shore", "seaside", "oceanfront", "waterfront", "bay", "cove", "forest", "woods",
      "woodland", "jungle", "rainforest", "grove", "thicket", "desert", "dune", "oasis",
      "savanna", "prairie", "steppe", "tundra", "island", "peninsula", "archipelago", "atoll",
      "reef", "lagoon"
    >>

\* KEYWORDS.nature.water
KEYWORDS_nature_water ==
    <<
      "lake", "river", "stream", "creek", "brook", "waterfall", "cascade", "rapids", "ocean",
      "sea", "pond", "pool", "spring", "fountain", "geyser", "hot spring", "wetland", "marsh",
      "swamp", "bog", "estuary", "delta", "fjord"
    >>

\* KEYWORDS.nature.sky
KEYWORDS_nature_sky ==
    <<
      "sky", "cloud", "sunset", "sunrise", "dawn", "dusk", "twilight", "golden hour",
      "rainbow", "aurora", "northern lights", "stars", "moon", "moonlight", "starry"
    >>

\* KEYWORDS.nature.plants
KEYWORDS_nature_plants ==
    <<
      "tree", "flower", "plant", "garden", "park", "botanical", "greenhouse", "rose", "tulip",
      "daisy", "sunflower", "lily", "orchid", "lotus", "cherry blossom", "sakura", "lavender",
      "wildflower", "bouquet", "bloom", "blossom", "petal", "leaf", "leaves", "foliage",
      "fern", "moss", "ivy", "vine", "bamboo", "palm", "oak", "pine", "maple", "birch",
      "willow", "redwood", "sequoia", "eucalyptus", "grass", "lawn", "meadow", "field",
      "pasture", "farmland", "countryside", "bush", "shrub", "hedge", "cactus", "succulent",
      "mushroom", "fungus"
    >>

\* KEYWORDS.nature.related
KEYWORDS_nature_related ==
    <<
      "outdoor", "outside", "wilderness", "wild", "natural", "environment", "eco", "hiking",
      "hike", "trail", "trek", "camping", "camp", "backpacking", "flora", "greenery",
      "vegetation", "habitat", "ecosystem", "conservation", "national park", "reserve",
      "sanctuary", "arboretum"
    >>

\* KEYWORDS.person.people
KEYWORDS_person_people ==
    <<
      "person", "people", "human", "face", "portrait", "selfie", "headshot", "profile", "man",
      "woman", "boy", "girl", "child", "children", "kid", "kids", "baby", "infant", "toddler",
      "teen", "teenager", "adult", "elder", "senior", "guy", "gal", "dude", "gentleman",
      "lady", "sir", "madam", "mr", "mrs", "ms", "miss"
    >>

\* KEYWORDS.person.relationships
KEYWORDS_person_relationships ==
    <<
      "family", "friend", "friends", "bestie", "bff", "buddy", "pal", "mate", "couple", "pair",
      "duo", "trio", "group", "squad", "gang", "crew", "team", "mom", "mother", "mama", "mum",
      "mommy", "dad", "father", "papa", "daddy", "parent", "parents", "son", "daughter",
      "brother", "sister", "sibling", "grandma", "grandmother", "grandpa", "grandfather",
      "grandparent", "aunt", "uncle", "cousin", "nephew", "niece", "husband", "wife", "spouse",
      "boyfriend", "girlfriend", "partner", "fiance", "fiancee"
    >>

\* KEYWORDS.person.events
KEYWORDS_person_events ==
    <<
      "wedding", "birthday", "party", "celebration", "graduation", "ceremony", "anniversary",
      "reunion", "gathering", "meetup", "hangout", "get together", "christmas", "thanksgiving",
      "easter", "halloween", "new year", "diwali", "eid", "hanukkah", "festival", "carnival",
      "prom", "homecoming", "shower", "reception", "engagement", "proposal", "baptism",
      "communion", "bar mitzvah"
    >>

\* KEYWORDS.person.names
KEYWORDS_person_names ==
    <<
      "john", "james", "jimmy", "jim", "michael", "mike", "david", "dave", "robert", "rob",
      "bob", "bobby", "william", "will", "bill", "billy", "richard", "rick", "dick", "joseph",
      "joe", "joey", "thomas", "tom", "tommy", "charles", "charlie", "christopher", "chris",
      "daniel", "dan", "danny", "matthew", "matt", "anthony", "tony", "mark", "donald", "don",
      "donny", "steven", "steve", "paul", "andrew", "andy", "drew", "joshua", "josh",
      "kenneth", "ken", "kenny", "kevin", "kev", "brian", "george", "timothy", "tim", "timmy",
      "ronald", "ron", "ronny", "edward", "ed", "eddie", "ted", "teddy", "jason", "jay",
      "jeffrey", "jeff", "ryan", "jacob", "jake", "gary", "nicholas", "nick", "nicky", "eric",
      "jonathan", "jon", "johnny", "stephen", "larry", "justin", "scott", "scotty", "brandon",
      "benjamin", "ben", "benny", "samuel", "sam", "sammy", "raymond", "ray", "gregory",
      "greg", "frank", "frankie", "alexander", "alex", "patrick", "pat", "paddy", "jack",
      "jackie", "dennis", "denny", "jerry", "mary", "patricia", "pat", "patty", "trish",
      "jennifer", "jen", "jenny", "linda", "elizabeth", "liz", "beth", "lizzy", "barbara",
      "barb", "barbie", "susan", "sue", "suzy", "jessica", "jess", "jessie", "sarah", "sara",
      "karen", "lisa", "nancy", "betty", "margaret", "maggie", "meg", "peggy", "sandra",
      "sandy", "ashley", "ash", "kimberly", "kim", "kimmy", "emily", "em", "emma", "donna",
      "michelle", "shelly", "micky", "dorothy", "dot", "dottie", "carol", "amanda", "mandy",
      "melissa", "mel", "missy", "deborah", "deb", "debbie", "stephanie", "steph", "rebecca",
      "becky", "becca", "sharon", "laura", "cynthia", "cindy", "kathleen", "kathy", "kate",
      "katie", "amy", "angela", "angie", "shirley", "anna", "annie", "brenda", "pamela", "pam",
      "nicole", "nikki", "helen", "samantha", "katherine", "christine", "chris", "christy",
      "tina", "debra", "rachel", "rach", "carolyn", "janet", "jan", "catherine", "cathy",
      "maria", "heather", "diane", "di", "ruth", "ruthie", "julie", "jules", "olivia", "liv",
      "livvy", "joyce", "virginia", "ginny", "victoria", "vicky", "tori", "kelly", "lauren",
      "christina", "joan", "joanie", "evelyn", "eve", "evie", "judith", "judy", "jude",
      "megan", "meg", "meggie", "andrea", "andie", "cheryl", "hannah", "jacqueline", "jackie",
      "martha", "gloria", "teresa", "terry", "ann", "anne", "annie", "madison", "maddie",
      "frances", "fran", "frannie", "kathryn", "janice", "jean", "jeanie", "abigail", "abby",
      "gail", "alice", "sophia", "sophie", "grace", "gracie", "chloe", "isabella", "bella",
      "izzy", "natalie", "nat", "zoe", "zoey", "lily", "maya", "mia", "ava", "rahul", "amit",
      "raj", "raju", "priya", "anita", "sanjay", "vijay", "ravi", "arun", "suresh", "ramesh",
      "pooja", "neha", "deepa", "sunita", "rekha", "seema", "meera", "kavita", "anand",
      "kumar", "singh", "sharma", "patel", "gupta", "verma", "rani", "devi", "lakshmi", "gita",
      "arjun", "krishna", "shiva", "ganesh", "lakshman", "sita", "radha", "durga", "saraswati",
      "parvati", "aarav", "vihaan", "aditya", "vivaan", "ananya", "aadhya", "diya", "pihu",
      "kavya", "ishaan", "rohan", "nikhil", "varun", "karan", "yash", "aryan", "dev",
      "reyansh", "ayaan", "atharva", "aanya", "saanvi", "anika", "navya", "tara", "sara",
      "myra", "ira", "nisha", "rita", "praveen", "prakash", "prasad", "pranav", "pradeep",
      "prashant", "pramod", "prabhu", "preeti", "priti"
    >>

\* KEYWORDS.person.related
KEYWORDS_person_related ==
    <<
      "selfie", "portrait", "headshot", "mugshot", "passport photo", "id photo", "profile pic",
      "avatar", "face pic", "groupie", "groufie"
    >>

\* ALL_TAGS: TAG_CATEGORIES flattened in declaration order
ALL_TAGS ==
    <<
      "person", "people", "face", "portrait", "selfie", "group photo", "dog", "cat", "bird",
      "animal", "pet", "puppy", "kitten", "car", "vehicle", "motorcycle", "bicycle", "truck",
      "bus", "building", "house", "architecture", "skyscraper", "bridge", "food", "meal",
      "drink", "fruit", "vegetables", "dessert", "phone", "laptop", "computer", "electronics",
      "camera", "furniture", "chair", "table", "bed", "sofa", "clothing", "dress", "shirt",
      "shoes", "accessories", "plant", "flower", "tree", "garden", "grass", "indoor",
      "outdoor", "nature", "urban", "rural", "beach", "ocean", "sea", "lake", "river",
      "waterfall", "mountain", "forest", "desert", "field", "meadow", "city", "street", "road",
      "park", "playground", "restaurant", "cafe", "office", "home", "bedroom", "kitchen",
      "gym", "stadium", "concert", "party", "wedding", "airport", "train station", "hotel",
      "museum", "church", "sunny", "cloudy", "rainy", "snowy", "foggy", "sunset", "sunrise",
      "night", "daytime", "golden hour", "sky", "clouds", "rainbow", "stars", "moon",
      "walking", "running", "sitting", "standing", "jumping", "eating", "drinking", "cooking",
      "reading", "writing", "playing", "working", "sleeping", "dancing", "singing", "swimming",
      "hiking", "cycling", "driving", "traveling", "celebrating", "smiling", "laughing",
      "posing", "happy", "joyful", "peaceful", "romantic", "exciting", "calm", "serene",
      "dramatic", "mysterious", "nostalgic", "colorful", "vibrant", "bright", "dark", "pastel",
      "black and white", "monochrome", "warm tones", "cool tones", "professional", "casual",
      "artistic", "vintage", "modern", "minimalist", "detailed", "close-up", "wide shot",
      "aerial view"
    >>
(***************************************************************************)
(* State                                                                   *)
(***************************************************************************)
VARIABLES
    personEmbeddingStore,  \* ImageProcessor: the Map personId -> signature, in insertion order
    db,                    \* the Person, Pet, Nature and Vehicle collections
    clip,                  \* CLIPTagger initPromise and isInitialized, server.js clipModelAvailable
    calls,                 \* the last calls since the last reset, oldest first
    filenameIndex,         \* per file name, the results of the pure filename scans
    files,                 \* the names of the files in uploads/, the paths of those in organized/
    loads,                 \* the model loads of the taggers: started, in flight, finished
    requests               \* the upload requests suspended at an await

vars == <<personEmbeddingStore, db, clip, calls, filenameIndex, files, loads, requests>>


(***************************************************************************)
(* 32-bit integer arithmetic of the filename hashes.  A hash value is kept *)
(* as its unsigned 32-bit pattern split in two 16-bit halves, so that no   *)
(* intermediate value leaves the range of the checker's integers.          *)
(***************************************************************************)
Half == 65536

HashZero == [hi |-> 0, lo |-> 0]

\* hash = ((hash << 5) - hash) + c; hash = hash & hash
\* i.e. (31 * hash + c) reduced to a signed 32-bit integer
HashStep(h, c) ==
    LET t  == h.lo * 31 + c
        lo == t % Half
        carry == (t - lo) \div Half
    IN [hi |-> (h.hi * 31 + carry) % Half, lo |-> lo]

IsNegative(h) == h.hi >= 32768

\* Math.abs(hash) % m, for 0 < m <= 10000; Math.abs(-2^31) is 2^31
AbsMod(h, m) ==
    IF IsNegative(h)
    THEN (((65535 - h.hi) % m) * (Half % m) + (Half - h.lo)) % m
    ELSE ((h.hi % m) * (Half % m) + h.lo) % m

RECURSIVE HashString(_, _)
HashString(h, s) ==
    IF s = "" THEN h ELSE HashString(HashStep(h, charCodeAt(Head(s))), Tail(s))

\* for (i = 0; i < Math.min(10, embedding.length); i++) hash += floor(embedding[i] * 1000)
RECURSIVE HashEmbedding(_, _, _)
HashEmbedding(h, embedding, i) ==
    IF i > Len(embedding) \/ i > 10 THEN h
    ELSE HashEmbedding(HashStep(h, embedding[i] * 1000), embedding, i + 1)

(***************************************************************************)
(* ImageProcessor (improved version)                                       *)
(***************************************************************************)
RECURSIVE Flatten(_)
Flatten(lists) == IF lists = <<>> THEN <<>> ELSE Head(lists) \o Flatten(Tail(lists))

\* mutation: the keyword loop without the strict mode
KeywordHit_Substring(wordBounded, substrings, keyword, strictWordBoundary) ==
    \/ keyword \in wordBounded
    \/ keyword \in substrings

\* the body of the keyword loop: the word-boundary regular expression of
\* line 226 matches, or (unless strict) the text includes the keyword.  The
\* keywords hold lower-case letters and spaces only, so the escaping of line
\* 226, the flag i and keyword.toLowerCase() change none of them.
KeywordHit(wordBounded, substrings, keyword, strictWordBoundary) ==
    \/ keyword \in wordBounded
    \/ ~strictWordBoundary /\ keyword \in substrings

\* returns the first keyword that matches, or null
containsKeyword(text, keywordLists, strictWordBoundary) ==
    LET lowerText == ReplaceSeparators(toLowerCase(text))
        wordBounded == WordBoundedSubstrings(lowerText)
        substrings == Substrings(lowerText)
        keywords  == Flatten(keywordLists)
        hits == {k \in 1..Len(keywords) :
                    KeywordHit(wordBounded, substrings, keywords[k], strictWordBoundary)}
    IN IF hits = {} THEN null ELSE keywords[Min(hits)]

VehicleLists == <<KEYWORDS_vehicle_types, KEYWORDS_vehicle_brands, KEYWORDS_vehicle_related>>

PetLists == <<KEYWORDS_pet_dogs, KEYWORDS_pet_cats, KEYWORDS_pet_others, KEYWORDS_pet_related>>

NatureLists ==
    <<KEYWORDS_nature_landscapes, KEYWORDS_nature_water, KEYWORDS_nature_sky,
      KEYWORDS_nature_plants, KEYWORDS_nature_related>>

PersonLists ==
    <<KEYWORDS_person_people, KEYWORDS_person_relationships, KEYWORDS_person_events,
      KEYWORDS_person_related>>

\* the original file names the requests present
Filenames ==
    { "mercedes_benz.jpg", "my_dog_in_the_car.jpg", "family_birthday_party.jpg",
      "IMG_1234.jpg", "ed.jpg", "fred.jpg", "jason.jpg", "Amy2.png", "dogcar.jpg",
      "sunset-beach.jpg", "x.png", "tommy cat.JPG" }

\* the five containsKeyword calls of determineCategories; the first four
\* are also the calls of analyzeFilename
KeywordMatches(filename) ==
    [vehicle |-> containsKeyword(filename, VehicleLists, FALSE),
     pet     |-> containsKeyword(filename, PetLists, FALSE),
     nature  |-> containsKeyword(filename, NatureLists, FALSE),
     person  |-> containsKeyword(filename, PersonLists, FALSE),
     name    |-> containsKeyword(filename, <<KEYWORDS_person_names>>, TRUE)]

\* the first loop of classifyByEmbedding (lines 333-336)
FilenameHash(filename) == HashString(HashZero, filename)

classifyByEmbedding(embedding, filename) ==
    IF Len(embedding) = 0 THEN "other"
    ELSE LET hash == HashEmbedding(filenameIndex[filename].hash, embedding, 1)
             hashValue == AbsMod(hash, 100)
         IN IF hashValue < 25 THEN "nature"
            ELSE IF hashValue < 50 THEN "pet"
            ELSE IF hashValue < 75 THEN "person"
            ELSE "vehicle"

\* mutation: the categories are exclusive, the first keyword match wins
determineCategories_Exclusive(embedding, filename) ==
    LET vehicleMatch == filenameIndex[filename].keywords.vehicle
        petMatch     == filenameIndex[filename].keywords.pet
        natureMatch  == filenameIndex[filename].keywords.nature
        personMatch  == filenameIndex[filename].keywords.person
        nameMatch    == filenameIndex[filename].keywords.name
        c1 == IF vehicleMatch # null THEN <<"vehicle">> ELSE <<>>
        c2 == IF c1 = <<>> /\ petMatch # null THEN Append(c1, "pet") ELSE c1
        c3 == IF c2 = <<>> /\ natureMatch # null THEN Append(c2, "nature") ELSE c2
        c4 == IF personMatch # null THEN Append(c3, "person")
              ELSE IF nameMatch # null THEN Append(c3, "person")
              ELSE c3
        embeddingCategory == classifyByEmbedding(embedding, filename)
        c5 == IF Len(c4) = 0 /\ Len(embedding) > 0 /\ embeddingCategory # "other"
              THEN Append(c4, embeddingCategory) ELSE c4
    IN IF Len(c5) = 0 THEN <<"other">> ELSE c5

determineCategories(embedding, filename) ==
    LET vehicleMatch == filenameIndex[filename].keywords.vehicle
        petMatch     == filenameIndex[filename].keywords.pet
        natureMatch  == filenameIndex[filename].keywords.nature
        personMatch  == filenameIndex[filename].keywords.person
        nameMatch    == filenameIndex[filename].keywords.name
        c1 == IF vehicleMatch # null THEN <<"vehicle">> ELSE <<>>
        c2 == IF petMatch # null THEN Append(c1, "pet") ELSE c1
        c3 == IF natureMatch # null THEN Append(c2, "nature") ELSE c2
        c4 == IF personMatch # null THEN Append(c3, "person")
              ELSE IF nameMatch # null THEN Append(c3, "person")
              ELSE c3
        embeddingCategory == classifyByEmbedding(embedding, filename)
        c5 == IF Len(c4) = 0 /\ Len(embedding) > 0 /\ embeddingCategory # "other"
              THEN Append(c4, embeddingCategory) ELSE c4
    IN IF Len(c5) = 0 THEN <<"other">> ELSE c5

\* a signature element is the mean n/d of a segment; d = 0 is 0/0 = NaN
RECURSIVE SumSeq(_)
SumSeq(s) == IF s = <<>> THEN 0 ELSE Head(s) + SumSeq(Tail(s))

generateEmbeddingSignature(embedding) ==
    LET segmentSize == Len(embedding) \div 8
    IN [i \in 1..8 |->
          LET segment == SubSeq(embedding, (i - 1) * segmentSize + 1, i * segmentSize)
          IN [n |-> SumSeq(segment), d |-> Len(segment)]]

IsNaN(sig) == \E i \in 1..Len(sig) : sig[i].d = 0

\* The similarity dotProduct / (sqrt(norm1) * sqrt(norm2)) is kept as the
\* triple of its terms, computed on the numerators: all elements of one
\* signature share the positive denominator segmentSize, which cancels.
\* zero |-> TRUE is the result 0 of lines 403 and 416 (NaN > 0 is false).
calculateSimilarity(sig1, sig2) ==
    IF Len(sig1) # Len(sig2) THEN [zero |-> TRUE, dot |-> 0, norm1 |-> 0, norm2 |-> 0]
    ELSE LET dotProduct == SumSeq([i \in 1..Len(sig1) |-> sig1[i].n * sig2[i].n])
             norm1 == SumSeq([i \in 1..Len(sig1) |-> sig1[i].n * sig1[i].n])
             norm2 == SumSeq([i \in 1..Len(sig1) |-> sig2[i].n * sig2[i].n])
             magnitudePositive == ~IsNaN(sig1) /\ ~IsNaN(sig2) /\ norm1 > 0 /\ norm2 > 0
         IN IF magnitudePositive
            THEN [zero |-> FALSE, dot |-> dotProduct, norm1 |-> norm1, norm2 |-> norm2]
            ELSE [zero |-> TRUE, dot |-> 0, norm1 |-> 0, norm2 |-> 0]

\* the threshold 0.85 = 17/20
ThresholdNum == 17

ThresholdDen == 20

\* mutation: the threshold test with 0.95 in place of 0.85
ExceedsThreshold_Higher(sim) ==
    /\ ~sim.zero
    /\ sim.dot > 0
    /\ 400 * sim.dot * sim.dot > 361 * sim.norm1 * sim.norm2

\* mutation: the threshold test with 0.70 in place of 0.85
ExceedsThreshold_Lower(sim) ==
    /\ ~sim.zero
    /\ sim.dot > 0
    /\ 100 * sim.dot * sim.dot > 49 * sim.norm1 * sim.norm2

\* similarity > 0.85
ExceedsThreshold(sim) ==
    /\ ~sim.zero
    /\ sim.dot > 0
    /\ ThresholdDen * ThresholdDen * sim.dot * sim.dot
         > ThresholdNum * ThresholdNum * sim.norm1 * sim.norm2

\* String(n).padStart(4, '0')
RECURSIVE padStart(_, _, _)
padStart(s, targetLength, padChar) ==
    IF Len(s) >= targetLength THEN s ELSE padStart(padChar \o s, targetLength, padChar)

\* Map.prototype.set on the store kept as a sequence in insertion order
MapSet(store, key, value) ==
    IF \E i \in 1..Len(store) : store[i].personId = key
    THEN [i \in 1..Len(store) |->
            IF store[i].personId = key THEN [personId |-> key, signature |-> value]
            ELSE store[i]]
    ELSE Append(store, [personId |-> key, signature |-> value])

Max(S) == CHOOSE x \in S : \A y \in S : x >= y

\* mutation: the scan returns the last stored identity above the threshold
findOrCreatePersonId_LastMatch(store, embedding) ==
    LET signature == generateEmbeddingSignature(embedding)
        matches == {i \in 1..Len(store) :
                      ExceedsThreshold(calculateSimilarity(signature, store[i].signature))}
        newPersonId == "person_" \o padStart(ToString(Len(store) + 1), 4, "0")
    IN IF matches # {}
       THEN [personId |-> store[Max(matches)].personId, store |-> store]
       ELSE [personId |-> newPersonId, store |-> MapSet(store, newPersonId, signature)]

\* returns the person id and the store after the call
findOrCreatePersonId(store, embedding) ==
    LET signature == generateEmbeddingSignature(embedding)
        matches == {i \in 1..Len(store) :
                      ExceedsThreshold(calculateSimilarity(signature, store[i].signature))}
        newPersonId == "person_" \o padStart(ToString(Len(store) + 1), 4, "0")
    IN IF matches # {}
       THEN [personId |-> store[Min(matches)].personId, store |-> store]
       ELSE [personId |-> newPersonId, store |-> MapSet(store, newPersonId, signature)]

EmptyAutoTags ==
    [person_id |-> null, nature |-> FALSE, pets |-> FALSE, vehicle |-> FALSE, objects |-> <<>>]

analyzeFilename(filename) ==
    LET vehicle == filenameIndex[filename].keywords.vehicle # null
        pet     == filenameIndex[filename].keywords.pet # null
        nature  == filenameIndex[filename].keywords.nature # null
        person  == filenameIndex[filename].keywords.person # null
        hasMatch == vehicle \/ pet \/ nature \/ person
    IN [person_id |-> IF person THEN "person_0001" ELSE null,
        nature |-> nature, pets |-> pet, vehicle |-> vehicle,
        objects |-> (IF vehicle THEN <<"vehicle">> ELSE <<>>)
                    \o (IF pet THEN <<"animal">> ELSE <<>>)
                    \o (IF nature THEN <<"outdoor">> ELSE <<>>)
                    \o (IF person THEN <<"portrait">> ELSE <<>>)
                    \o (IF ~hasMatch THEN <<"uncategorized">> ELSE <<>>)]

SeqIncludes(seq, x) == \E i \in 1..Len(seq) : seq[i] = x

\* returns the AutoTags and the store after the call
analyzeEmbedding(store, embedding, filename) ==
    IF Len(embedding) = 0 THEN [autoTags |-> analyzeFilename(filename), store |-> store]
    ELSE LET categories == determineCategories(embedding, filename)
             vehicle == SeqIncludes(categories, "vehicle")
             pet     == SeqIncludes(categories, "pet")
             nature  == SeqIncludes(categories, "nature")
             person  == SeqIncludes(categories, "person")
             found   == findOrCreatePersonId(store, embedding)
             uncategorized ==
                 Len(categories) = 0 \/ (Len(categories) = 1 /\ SeqIncludes(categories, "other"))
         IN [autoTags |->
               [person_id |-> IF person THEN found.personId ELSE null,
                nature |-> nature, pets |-> pet, vehicle |-> vehicle,
                objects |-> (IF vehicle THEN <<"vehicle">> ELSE <<>>)
                            \o (IF pet THEN <<"animal">> ELSE <<>>)
                            \o (IF nature THEN <<"landscape", "outdoor">> ELSE <<>>)
                            \o (IF person THEN <<"portrait">> ELSE <<>>)
                            \o (IF uncategorized THEN <<"uncategorized">> ELSE <<>>)],
             store |-> IF person THEN found.store ELSE store]

\* a JavaScript string is truthy when it is not empty; null is falsy
Truthy(s) == s # null /\ s # ""

RECURSIVE TagFolders(_)
TagFolders(customTags) ==
    IF customTags = <<>> THEN <<>>
    ELSE (IF Truthy(Head(customTags)) /\ Truthy(trim(Head(customTags)))
          THEN <<"tags/" \o trim(Head(customTags))>> ELSE <<>>)
         \o TagFolders(Tail(customTags))

\* mutation: the pets folder before the vehicles folder
getAllFolderPaths_PetsFirst(autoTags, customTags) ==
    LET folders ==
          (IF autoTags.pets THEN <<"pets">> ELSE <<>>)
          \o (IF autoTags.vehicle THEN <<"vehicles">> ELSE <<>>)
          \o (IF autoTags.nature THEN <<"nature">> ELSE <<>>)
          \o (IF Truthy(autoTags.person_id) THEN <<"people/" \o autoTags.person_id>> ELSE <<>>)
          \o TagFolders(customTags)
    IN IF Len(folders) = 0 THEN <<"uncategorized">> ELSE folders

getAllFolderPaths(autoTags, customTags) ==
    LET folders ==
          (IF autoTags.vehicle THEN <<"vehicles">> ELSE <<>>)
          \o (IF autoTags.pets THEN <<"pets">> ELSE <<>>)
          \o (IF autoTags.nature THEN <<"nature">> ELSE <<>>)
          \o (IF Truthy(autoTags.person_id) THEN <<"people/" \o autoTags.person_id>> ELSE <<>>)
          \o TagFolders(customTags)
    IN IF Len(folders) = 0 THEN <<"uncategorized">> ELSE folders

determineFolderPath(autoTags, customTags) == getAllFolderPaths(autoTags, customTags)[1]

(***************************************************************************)
(* CLIPTagger                                                              *)
(***************************************************************************)
\* path.extname of a name without directories
LastDot(s) ==
    LET dots == {i \in 1..Len(s) : CharAt(s, i) = "."}
    IN IF dots = {} THEN 0 ELSE Max(dots)

extname(s) == IF LastDot(s) <= 1 THEN "" ELSE SubSeq(s, LastDot(s), Len(s))

\* path.basename(filename, path.extname(filename))
basename(s, ext) ==
    IF ext # "" /\ Len(s) > Len(ext) /\ SubSeq(s, Len(s) - Len(ext) + 1, Len(s)) = ext
    THEN SubSeq(s, 1, Len(s) - Len(ext))
    ELSE s

AllIn(s, chars) == \A i \in 1..Len(s) : InStr(CharAt(s, i), chars)

\* /^\d+$/
IsDigits(s) == s # "" /\ AllIn(s, DIGITS)

\* /^prefix[-_]?\d+$/i, prefix in lower case
PrefixNumber(name, prefix) ==
    LET lower == toLowerCase(name)
        rest  == SubSeq(lower, Len(prefix) + 1, Len(lower))
    IN /\ Len(lower) > Len(prefix)
       /\ SubSeq(lower, 1, Len(prefix)) = prefix
       /\ \/ IsDigits(rest)
          \/ Head(rest) \in {"-", "_"} /\ IsDigits(Tail(rest))

\* /^\d+-[a-z0-9_]+$/i
TimestampPrefix(name) ==
    \E k \in 2..(Len(name) - 1) :
        /\ IsDigits(SubSeq(name, 1, k - 1))
        /\ CharAt(name, k) = "-"
        /\ AllIn(toLowerCase(SubSeq(name, k + 1, Len(name))), LOWER \o DIGITS \o "_")

\* meaninglessPatterns.some(pattern => pattern.test(nameWithoutExt))
isMeaningless(nameWithoutExt) ==
    \/ PrefixNumber(nameWithoutExt, "img")
    \/ PrefixNumber(nameWithoutExt, "dsc")
    \/ PrefixNumber(nameWithoutExt, "dcim")
    \/ PrefixNumber(nameWithoutExt, "photo")
    \/ PrefixNumber(nameWithoutExt, "screenshot")
    \/ Len(nameWithoutExt) >= 10 /\ IsDigits(nameWithoutExt)
    \/ Len(nameWithoutExt) >= 8 /\ AllIn(toLowerCase(nameWithoutExt), "abcdef" \o DIGITS)
    \/ TimestampPrefix(nameWithoutExt)

\* s.replace(/[0-9]+/g, ' ')
RECURSIVE ReplaceNumbers(_, _)
ReplaceNumbers(s, inNumber) ==
    IF s = "" THEN ""
    ELSE IF InStr(Head(s), DIGITS)
         THEN (IF inNumber THEN "" ELSE " ") \o ReplaceNumbers(Tail(s), TRUE)
         ELSE Head(s) \o ReplaceNumbers(Tail(s), FALSE)

\* the non-empty elements of s.split(separator), separator one character
\* (for /\s+/: the space, the only white space of the inputs)
RECURSIVE Split(_, _, _)
Split(s, separator, word) ==
    IF s = "" THEN (IF word = "" THEN <<>> ELSE <<word>>)
    ELSE IF Head(s) = separator
         THEN (IF word = "" THEN <<>> ELSE <<word>>) \o Split(Tail(s), separator, "")
         ELSE Split(Tail(s), separator, word \o Head(s))

\* [...new Set(seq)]
RECURSIVE Unique(_)
Unique(seq) ==
    IF seq = <<>> THEN <<>>
    ELSE LET rest == Unique(SubSeq(seq, 1, Len(seq) - 1))
             last == seq[Len(seq)]
         IN IF \E i \in 1..Len(rest) : rest[i] = last THEN rest ELSE Append(rest, last)

\* seq.slice(0, n)
slice(seq, n) == SubSeq(seq, 1, IF Len(seq) < n THEN Len(seq) ELSE n)

StopWords == {"the", "and", "for", "with", "from"}

extractFilenameTags(filename) ==
    LET nameWithoutExt == basename(filename, extname(filename))
        words == SelectSeq(
                   Split(ReplaceSeparators(ReplaceNumbers(toLowerCase(nameWithoutExt), FALSE)),
                         " ", ""),
                   LAMBDA word : Len(word) > 2 /\ word \notin StopWords)
        matchedTags == SelectSeq(words, LAMBDA word :
                          \E t \in 1..Len(ALL_TAGS) :
                             includes(toLowerCase(ALL_TAGS[t]), word)
                               \/ includes(word, toLowerCase(ALL_TAGS[t])))
        meaningfulWords == SelectSeq(words, LAMBDA word : Len(word) >= 4)
    IN IF isMeaningless(nameWithoutExt) THEN <<>>
       ELSE slice(Unique(matchedTags \o meaningfulWords), 3)

\* tags.join(' ')
RECURSIVE join(_)
join(tags) ==
    IF tags = <<>> THEN ""
    ELSE IF Len(tags) = 1 THEN tags[1]
    ELSE tags[1] \o " " \o join(Tail(tags))

\* keywords.some(k => text.includes(k))
IncludesSome(text, keywords) == \E i \in 1..Len(keywords) : includes(text, keywords[i])

\* `person_${String(Math.abs(hash) % 10000).padStart(4, '0')}`
generatePersonId(filename) ==
    "person_" \o padStart(ToString(AbsMod(filenameIndex[filename].hash, 10000)), 4, "0")

convertToAutoTags(tags, filename) ==
    LET tagString == toLowerCase(join(tags))
    IN [person_id |-> IF IncludesSome(tagString, <<"person", "people", "face", "portrait", "selfie">>)
                      THEN generatePersonId(filename) ELSE null,
        nature |-> IncludesSome(tagString,
                      <<"nature", "outdoor", "beach", "mountain", "forest", "sunset", "flower", "tree">>),
        pets |-> IncludesSome(tagString, <<"dog", "cat", "pet", "animal", "puppy", "kitten">>),
        vehicle |-> IncludesSome(tagString, <<"car", "vehicle", "motorcycle", "bicycle", "truck">>),
        objects |-> tags]

hashBasedFallback(filename) ==
    LET category == AbsMod(filenameIndex[filename].hash, 4)
    IN [person_id |-> IF category = 0 THEN generatePersonId(filename) ELSE null,
        nature |-> category = 2,
        pets |-> category = 1,
        vehicle |-> category = 3,
        objects |-> <<"uncategorized">>]

\* analyzeImage without the file name and hash tiers
analyzeImage_ClipOnly(clipTags, originalFilename) ==
    [combinedTags |-> clipTags,
     autoTags |-> convertToAutoTags(clipTags, originalFilename),
     method |-> "clip"]

\* clipTags is the tag list of generateCLIPTags, <<>> when it returns null.
\* Returns combinedTags, autoTags and method; the other fields of the result
\* are not read by the callers.
analyzeImage(clipTags, originalFilename) ==
    LET useClip == Len(clipTags) > 0
        filenameTags == filenameIndex[originalFilename].tags
        newTags == SelectSeq(filenameTags, LAMBDA ft :
                      ~\E i \in 1..Len(clipTags) :
                          includes(toLowerCase(clipTags[i]), toLowerCase(ft))
                            \/ includes(toLowerCase(ft), toLowerCase(clipTags[i])))
        filenameOnly == ~useClip /\ Len(filenameTags) > 0
        combinedTags == IF filenameOnly THEN filenameTags
                        ELSE IF Len(filenameTags) > 0 THEN slice(clipTags \o newTags, 7)
                        ELSE clipTags
        autoTags == IF useClip THEN convertToAutoTags(clipTags, originalFilename)
                    ELSE IF filenameOnly THEN convertToAutoTags(filenameTags, originalFilename)
                    ELSE EmptyAutoTags
    IN IF Len(combinedTags) = 0
       THEN [combinedTags |-> <<"uncategorized">>,
             autoTags |-> hashBasedFallback(originalFilename),
             method |-> "hash-fallback"]
       ELSE [combinedTags |-> combinedTags,
             autoTags |-> autoTags,
             method |-> IF useClip THEN "clip" ELSE "filename"]
(***************************************************************************)
(* Bounds and inputs                                                       *)
(***************************************************************************)
\* the registry holds at most this many identities
MaxPersons == 3

\* uploads/ holds at most this many files
MaxUploads == 1

EmbA == <<20, 0, 0, 0, 0, 0, 0, 0>>

\* cosine similarity with EmbA: 340 / (20 * 20) = 0.85 exactly
EmbB == <<17, 10, 3, 1, 1, 0, 0, 0>>

\* similar to EmbA (0.91), to EmbB (0.98) and to EmbD (0.93)
EmbC == <<18, 8, 0, 0, 0, 0, 0, 0>>

\* not similar to EmbA (0.71)
EmbD == <<12, 12, 0, 0, 0, 0, 0, 0>>

\* the signature of a zero vector has norm 0
EmbZero == <<0, 0, 0, 0, 0, 0, 0, 0>>

\* fewer than 8 elements: segmentSize is 0
EmbShort == <<1, 2, 3>>

\* 17 elements: segments of 2, the last element is dropped; signature 2 * EmbA
EmbLong == <<20, 20, 0, 0, 0, 0, 0, 0, 0, 0, 0, 0, 0, 0, 0, 0, 9>>

Embeddings == {EmbA, EmbB, EmbC, EmbD, EmbZero, EmbShort, EmbLong}

\* the inputs of the repeated analyzeEmbedding calls
AnalyzeEmbeddings == {EmbA, EmbZero, EmbShort, <<>>}

AnalyzeFilenames == {"family_birthday_party.jpg", "mercedes_benz.jpg", "x.png"}

(***************************************************************************)
(* Identity registry: ImageProcessor called directly                       *)
(***************************************************************************)
LastTwo(s) == IF Len(s) > 2 THEN SubSeq(s, Len(s) - 1, Len(s)) ELSE s

\* the disk storage of multer: `${Date.now()}-${safeName}` with
\* safeName = file.originalname.replace(/[^a-zA-Z0-9.-]/g, '_')
RECURSIVE SafeName(_)
SafeName(s) ==
    IF s = "" THEN ""
    ELSE (IF IsWordChar(Head(s)) \/ Head(s) \in {".", "-"} THEN Head(s) ELSE "_")
         \o SafeName(Tail(s))

MulterFilename(timestamp, originalname) == timestamp \o "-" \o SafeName(originalname)

\* the values of Date.now() of the uploads, one per file on disk
Timestamps == {CharAt(DIGITS, n + 1) : n \in 1..MaxUploads}

\* the names multer stores the uploads under
UploadFilenames == {MulterFilename(t, f) : t \in Timestamps, f \in Filenames}

\* an upload that multer's fileFilter accepts (mimetype image/bmp) and whose
\* name the filter of reprocess and reorganize, /\.(jpg|jpeg|png|gif|webp)$/i,
\* does not match
BitmapFilenames == {"scan.bmp"}

\* the pure scans of a file name, computed once for the file names in play
FilenameIndex ==
    [f \in Filenames \cup UploadFilenames \cup BitmapFilenames
            \cup {MulterFilename(t, b) : t \in Timestamps, b \in BitmapFilenames} |->
       [keywords |-> KeywordMatches(f), hash |-> FilenameHash(f),
        tags |-> extractFilenameTags(f)]]

\* CLIPTagger: the load started by initialize is pending or done; MobileNet
\* tagger: the number of mobilenet.load calls started and in flight, and the
\* module variable model
NoLoads ==
    [clipStarted |-> 0, clipPending |-> FALSE,
     mobilenetStarted |-> 0, mobilenetPending |-> 0, model |-> FALSE]

EmptyDb == [Person |-> {}, Pet |-> {}, Nature |-> {}, Vehicle |-> {}]

Init ==
    /\ personEmbeddingStore = <<>>
    /\ db = EmptyDb
    /\ clip = [initPromise |-> FALSE, isInitialized |-> FALSE, clipModelAvailable |-> FALSE]
    /\ calls = <<>>
    /\ filenameIndex = FilenameIndex
    /\ files = [uploads |-> {}, organized |-> {}]
    /\ loads = NoLoads
    /\ requests = <<>>

Resolve(embedding) ==
    LET r == findOrCreatePersonId(personEmbeddingStore, embedding)
    IN /\ Len(r.store) <= MaxPersons
       /\ personEmbeddingStore' = r.store
       /\ calls' = LastTwo(Append(calls,
             [op |-> "findOrCreatePersonId", embedding |-> embedding, filename |-> "",
              personId |-> r.personId, autoTags |-> EmptyAutoTags,
              before |-> personEmbeddingStore, after |-> r.store]))
       /\ UNCHANGED <<db, clip, filenameIndex, files, loads, requests>>

AnalyzeEmbedding(embedding, filename) ==
    LET r == analyzeEmbedding(personEmbeddingStore, embedding, filename)
    IN /\ Len(r.store) <= MaxPersons
       /\ personEmbeddingStore' = r.store
       /\ calls' = LastTwo(Append(calls,
             [op |-> "analyzeEmbedding", embedding |-> embedding, filename |-> filename,
              personId |-> r.autoTags.person_id, autoTags |-> r.autoTags,
              before |-> personEmbeddingStore, after |-> r.store]))
       /\ UNCHANGED <<db, clip, filenameIndex, files, loads, requests>>

ClearPersonStore ==
    /\ personEmbeddingStore' = <<>>
    /\ calls' = <<[op |-> "clearPersonStore", embedding |-> <<>>, filename |-> "",
                   personId |-> null, autoTags |-> EmptyAutoTags,
                   before |-> personEmbeddingStore, after |-> <<>>]>>
    /\ UNCHANGED <<db, clip, filenameIndex, files, loads, requests>>

getTrackedPersons(store) == [i \in 1..Len(store) |-> store[i].personId]

RegistryNext ==
    \/ \E e \in Embeddings : Resolve(e)
    \/ ClearPersonStore

SpecRegistry == Init /\ [][RegistryNext]_vars

AnalyzeNext ==
    \/ \E e \in AnalyzeEmbeddings, f \in AnalyzeFilenames : AnalyzeEmbedding(e, f)
    \/ ClearPersonStore

SpecAnalyze == Init /\ [][AnalyzeNext]_vars

(***************************************************************************)
(* CollectionSync (services/collectionSync.js)                             *)
(*                                                                         *)
(* A collection is the set of its documents                                *)
(*   [key, images, imageCount, sampleImageUrl]                             *)
(* where key is personId (Person) or category (Pet, Nature, Vehicle) and   *)
(* imageCount is metadata.imageCount.  A request fails when the database   *)
(* rejects one of its operations: failAt is the number of that operation,  *)
(* 0 when none fails.                                                      *)
(***************************************************************************)
\* a document holds at most this many image entries, and its imageCount
\* stays above -MaxImages and at most MaxImages
MaxImages == 2

\* findOneAndUpdate({key}, {$push images, $inc imageCount 1, $set sampleImageUrl,
\* $setOnInsert key}, {upsert: true})
findOneAndUpdate(collection, key, imageData, imageUrl) ==
    IF \E d \in collection : d.key = key
    THEN LET doc == CHOOSE d \in collection : d.key = key
         IN (collection \ {doc}) \cup
              {[doc EXCEPT !.images = Append(@, imageData),
                           !.imageCount = @ + 1,
                           !.sampleImageUrl = imageUrl]}
    ELSE collection \cup
           {[key |-> key, images |-> <<imageData>>, imageCount |-> 0 + 1,
             sampleImageUrl |-> imageUrl]}

\* the findOneAndUpdate calls of addImageToCollections, in the order of the code
Destinations(autoTags) ==
    LET flagged ==
          (IF Truthy(autoTags.person_id)
           THEN <<[model |-> "Person", key |-> autoTags.person_id, label |-> "Person"]>>
           ELSE <<>>)
          \o (IF autoTags.pets
              THEN <<[model |-> "Pet", key |-> "pet", label |-> "Pet"]>> ELSE <<>>)
          \o (IF autoTags.nature
              THEN <<[model |-> "Nature", key |-> "nature", label |-> "Nature"]>> ELSE <<>>)
          \o (IF autoTags.vehicle
              THEN <<[model |-> "Vehicle", key |-> "vehicle", label |-> "Vehicle"]>> ELSE <<>>)
    IN IF flagged = <<>>
       THEN <<[model |-> "Nature", key |-> "uncategorized", label |-> "Nature (uncategorized)"]>>
       ELSE flagged

RECURSIVE ApplyDestinations(_, _, _)
ApplyDestinations(database, destinations, imageData) ==
    IF destinations = <<>> THEN database
    ELSE LET dest == Head(destinations)
             next == [database EXCEPT ![dest.model] =
                         findOneAndUpdate(@, dest.key, imageData,
                                          "/uploads/" \o imageData.filename)]
         IN ApplyDestinations(next, Tail(destinations), imageData)

\* returns the results object and the database after the call
addImageToCollections(database, imageData, failAt) ==
    LET destinations == Destinations(imageData.autoTags)
        done == IF failAt = 0 THEN destinations ELSE SubSeq(destinations, 1, failAt - 1)
    IN [results |-> [addedTo |-> [i \in 1..Len(done) |-> done[i].label],
                     errors  |-> IF failAt = 0 THEN <<>> ELSE <<"general">>],
        db |-> ApplyDestinations(database, done, imageData)]

\* $pull: { images: { filename } }
Pull(images, filename) == SelectSeq(images, LAMBDA image : image.filename # filename)

\* updateMany({}, { $pull: { images: { filename } }, $inc: { 'metadata.imageCount': -1 } })
updateMany(collection, filename) ==
    {[d EXCEPT !.images = Pull(@, filename), !.imageCount = @ - 1] : d \in collection}

\* mutation: deleteMany({ 'metadata.imageCount': { $lt: 0 } })
deleteMany_Negative(collection) == {d \in collection : ~(d.imageCount < 0)}

\* deleteMany({ 'metadata.imageCount': { $lte: 0 } })
deleteMany(collection) == {d \in collection : ~(d.imageCount <= 0)}

Models == <<"Person", "Pet", "Nature", "Vehicle">>

\* the eight database operations of removeImageFromCollections, in the order of the code
RemoveStep(database, filename, step) ==
    IF step <= 4
    THEN [database EXCEPT ![Models[step]] = updateMany(@, filename)]
    ELSE [database EXCEPT ![Models[step - 4]] = deleteMany(@)]

RECURSIVE RemoveSteps(_, _, _, _)
RemoveSteps(database, filename, step, last) ==
    IF step > last THEN database
    ELSE RemoveSteps(RemoveStep(database, filename, step), filename, step + 1, last)

\* a removal that reports success and pulls nothing
removeImageFromCollections_Nothing(database, filename, failAt) ==
    [success |-> failAt = 0, db |-> database]

\* returns the result object and the database after the call
removeImageFromCollections(database, filename, failAt) ==
    [success |-> failAt = 0,
     db |-> RemoveSteps(database, filename, 1, IF failAt = 0 THEN 8 ELSE failAt - 1)]

AllDocuments(database) ==
    database.Person \cup database.Pet \cup database.Nature \cup database.Vehicle

\* the number of entries of a document for a file name
EntryCount(doc, filename) ==
    Cardinality({i \in 1..Len(doc.images) : doc.images[i].filename = filename})

SyncFilenames == {"a.jpg", "b.jpg", "c.jpg"}

\* the image records the requests present
SyncRecords ==
    { [filename |-> "a.jpg",
       autoTags |-> [person_id |-> "person_0001", nature |-> FALSE, pets |-> TRUE,
                     vehicle |-> FALSE, objects |-> <<"animal", "portrait">>]],
      [filename |-> "b.jpg",
       autoTags |-> [person_id |-> null, nature |-> FALSE, pets |-> TRUE,
                     vehicle |-> FALSE, objects |-> <<"animal">>]],
      [filename |-> "c.jpg",
       autoTags |-> [person_id |-> null, nature |-> FALSE, pets |-> FALSE,
                     vehicle |-> FALSE, objects |-> <<"uncategorized">>]] }

\* the operation at which the database rejects a request (0: none): the
\* first or the second findOneAndUpdate of an addition, the second deleteMany
\* of a removal
AddFailures == {0, 1, 2}

RemoveFailures == {0, 6}

AddImageToCollections(imageData, failAt) ==
    LET r == addImageToCollections(db, imageData, failAt)
    IN /\ failAt <= Len(Destinations(imageData.autoTags))
       /\ failAt > 0 => Len(Destinations(imageData.autoTags)) > 1    \* a partial fan-out
       /\ \A d \in AllDocuments(r.db) :
             Len(d.images) <= MaxImages /\ d.imageCount <= MaxImages
       /\ db' = r.db
       /\ calls' = LastTwo(Append(calls,
             [op |-> "addImageToCollections", imageData |-> imageData,
              filename |-> imageData.filename, ok |-> r.results.errors = <<>>,
              failAt |-> failAt, results |-> r.results]))
       /\ UNCHANGED <<personEmbeddingStore, clip, filenameIndex, files, loads, requests>>

RemoveImageFromCollections(filename, failAt) ==
    LET r == removeImageFromCollections(db, filename, failAt)
    IN /\ \A d \in AllDocuments(r.db) : d.imageCount > -MaxImages
       /\ db' = r.db
       /\ calls' = LastTwo(Append(calls,
             [op |-> "removeImageFromCollections", imageData |-> null,
              filename |-> filename, ok |-> r.success,
              failAt |-> failAt, results |-> [addedTo |-> <<>>, errors |-> <<>>]]))
       /\ UNCHANGED <<personEmbeddingStore, clip, filenameIndex, files, loads, requests>>

SyncNext ==
    \/ \E imageData \in SyncRecords, failAt \in AddFailures : AddImageToCollections(imageData, failAt)
    \/ \E filename \in SyncFilenames, failAt \in RemoveFailures : RemoveImageFromCollections(filename, failAt)

SpecSync == Init /\ [][SyncNext]_vars

(***************************************************************************)
(* Request handlers (server.js)                                            *)
(***************************************************************************)
\* req.body.tags.split(',').map(tag => tag.trim().toLowerCase()).filter(tag => tag)
\* and, for an array, tags.map(tag => tag.trim().toLowerCase()).filter(tag => tag)
NormalizeTags(tags) ==
    SelectSeq([i \in 1..Len(tags) |-> toLowerCase(trim(tags[i]))], LAMBDA tag : tag # "")

ParseTags(tagString) == NormalizeTags(Split(tagString, ",", ""))

CategoryTags ==
    <<"person", "pet", "nature", "vehicle", "dog", "cat", "car", "bike", "flower", "tree",
      "family", "portrait">>

\* the last custom tag that names a category, in place of the first
FindUserCategory_Last(customTags) ==
    LET hits == {i \in 1..Len(customTags) : IncludesSome(customTags[i], CategoryTags)}
    IN IF hits = {} THEN null ELSE customTags[Max(hits)]

\* customTags.find(tag => categoryTags.some(ct => tag.includes(ct))), null when none
FindUserCategory(customTags) ==
    LET hits == {i \in 1..Len(customTags) : IncludesSome(customTags[i], CategoryTags)}
    IN IF hits = {} THEN null ELSE customTags[Min(hits)]

\* the branch of POST /api/upload for a user category: found is the result of
\* findOrCreatePersonId, read when the category names a person
ClassifyByUserCategory(store, customTags, userCategory, found) ==
    [autoTags |->
       [person_id |-> IF IncludesSome(userCategory, <<"person", "family", "portrait", "selfie">>)
                      THEN found.personId ELSE null,
        nature  |-> IncludesSome(userCategory,
                       <<"nature", "flower", "tree", "landscape", "sunset", "beach">>),
        pets    |-> IncludesSome(userCategory, <<"pet", "dog", "cat", "animal">>),
        vehicle |-> IncludesSome(userCategory, <<"vehicle", "car", "bike", "truck">>),
        objects |-> (IF IncludesSome(userCategory, <<"person", "family", "portrait", "selfie">>)
                     THEN <<"portrait">> ELSE <<>>)
                    \o (IF IncludesSome(userCategory, <<"pet", "dog", "cat", "animal">>)
                        THEN <<"animal">> ELSE <<>>)
                    \o (IF IncludesSome(userCategory,
                              <<"nature", "flower", "tree", "landscape", "sunset", "beach">>)
                        THEN <<"outdoor">> ELSE <<>>)
                    \o (IF IncludesSome(userCategory, <<"vehicle", "car", "bike", "truck">>)
                        THEN <<"vehicle">> ELSE <<>>)],
     customTags |-> customTags,
     store |-> IF IncludesSome(userCategory, <<"person", "family", "portrait", "selfie">>)
               THEN found.store ELSE store,
     method |-> "custom-tag"]

\* the branch of POST /api/upload for a result of clipTagger.analyzeImage
ClassifyByClip(store, customTags, clipResult) ==
    [autoTags |-> clipResult.autoTags,
     customTags |-> Unique(customTags \o clipResult.combinedTags),
     store |-> store,
     method |-> clipResult.method]

\* the branches of POST /api/upload that call ImageProcessor.analyzeEmbedding
ClassifyByEmbedding(customTags, analyzed) ==
    [autoTags |-> analyzed.autoTags,
     customTags |-> customTags,
     store |-> analyzed.store,
     method |-> "analyzeEmbedding"]

\* the classification of POST /api/upload; clipTags is what generateCLIPTags
\* returns, clipThrows whether analyzeImage throws.  Returns autoTags,
\* customTags, the registry after the call and the path taken.
ClassifyUpload(store, clipAvailable, originalname, embedding, customTags, clipTags, clipThrows) ==
    IF FindUserCategory(customTags) # null
    THEN ClassifyByUserCategory(store, customTags, FindUserCategory(customTags),
                                findOrCreatePersonId(store, embedding))
         @@ [requestTags |-> customTags, labelSource |-> "unused"]
    ELSE IF clipAvailable /\ ~clipThrows
    THEN ClassifyByClip(store, customTags, analyzeImage(clipTags, originalname))
         @@ [requestTags |-> customTags,
             labelSource |-> IF clipTags = <<>> THEN "nothing" ELSE "tags"]
    ELSE ClassifyByEmbedding(customTags, analyzeEmbedding(store, embedding, originalname))
         @@ [requestTags |-> customTags,
             labelSource |-> IF clipAvailable THEN "throws" ELSE "unavailable"]

\* the file names of the stored images
StoredFilenames(database) ==
    UNION {{d.images[i].filename : i \in 1..Len(d.images)} : d \in AllDocuments(database)}

\* CollectionSync.findImageByFilename: the entry of the first collection, in
\* the order Person, Pet, Nature, Vehicle, that holds the file name; null when none
RECURSIVE FindIn(_, _, _)
FindIn(database, filename, m) ==
    IF m > Len(Models) THEN null
    ELSE LET holders == {d \in database[Models[m]] : EntryCount(d, filename) > 0}
         IN IF holders = {} THEN FindIn(database, filename, m + 1)
            ELSE LET doc == CHOOSE d \in holders : TRUE
                     at  == Min({i \in 1..Len(doc.images) : doc.images[i].filename = filename})
                 IN doc.images[at]

findImageByFilename(database, filename) == FindIn(database, filename, 1)

PersonKeywords ==
    <<"person", "people", "family", "portrait", "selfie", "face", "man", "woman", "child",
      "kid", "baby">>

PetKeywords ==
    <<"pet", "dog", "cat", "puppy", "kitten", "animal", "bird", "fish", "rabbit", "hamster">>

NatureKeywords ==
    <<"nature", "landscape", "flower", "tree", "beach", "mountain", "sunset", "sunrise",
      "forest", "ocean", "sky", "garden", "park">>

VehicleKeywords ==
    <<"vehicle", "car", "bike", "truck", "motorcycle", "bus", "train", "plane", "boat", "ship">>

\* one pass of the tag loop of PUT /api/images/:filename/tags; personId is
\* existingImage.autoTags.person_id || findOrCreatePersonId(...)
ClassifyTag(autoTags, tag, personId) ==
    [person_id |-> IF IncludesSome(tag, PersonKeywords) THEN personId ELSE autoTags.person_id,
     nature  |-> autoTags.nature \/ IncludesSome(tag, NatureKeywords),
     pets    |-> autoTags.pets \/ IncludesSome(tag, PetKeywords),
     vehicle |-> autoTags.vehicle \/ IncludesSome(tag, VehicleKeywords),
     objects |-> autoTags.objects
                 \o (IF IncludesSome(tag, PersonKeywords) THEN <<"portrait">> ELSE <<>>)
                 \o (IF IncludesSome(tag, PetKeywords) THEN <<"animal">> ELSE <<>>)
                 \o (IF IncludesSome(tag, NatureKeywords) THEN <<"outdoor">> ELSE <<>>)
                 \o (IF IncludesSome(tag, VehicleKeywords) THEN <<"vehicle">> ELSE <<>>)]

\* the tag loop; returns the autoTags and the registry after it
RECURSIVE ClassifyTags(_, _, _, _)
ClassifyTags(autoTags, store, customTags, existingImage) ==
    IF customTags = <<>> THEN [autoTags |-> autoTags, store |-> store]
    ELSE IF ~IncludesSome(Head(customTags), PersonKeywords)
    THEN ClassifyTags(ClassifyTag(autoTags, Head(customTags), null), store,
                      Tail(customTags), existingImage)
    ELSE IF Truthy(existingImage.autoTags.person_id)
    THEN ClassifyTags(ClassifyTag(autoTags, Head(customTags), existingImage.autoTags.person_id),
                      store, Tail(customTags), existingImage)
    ELSE ClassifyTags(
           ClassifyTag(autoTags, Head(customTags),
                       findOrCreatePersonId(store, existingImage.embedding).personId),
           findOrCreatePersonId(store, existingImage.embedding).store,
           Tail(customTags), existingImage)

\* the fallback of the re-classification when the tags set no flag
ClassifyFallback(tagged, existingImage) ==
    IF \/ Truthy(tagged.autoTags.person_id)
       \/ tagged.autoTags.pets
       \/ tagged.autoTags.nature
       \/ tagged.autoTags.vehicle
    THEN [autoTags |-> tagged.autoTags, store |-> tagged.store, method |-> "custom-tag"]
    ELSE [autoTags |-> analyzeFilename(existingImage.originalName),
          store |-> tagged.store, method |-> "analyzeFilename"]

ClassifyUpdate(store, customTags, existingImage) ==
    ClassifyFallback(ClassifyTags(EmptyAutoTags, store, customTags, existingImage),
                     existingImage)

\* the initialization started when the server starts: clipTagger.initialize()
InitializeCLIP(loaded) ==
    /\ ~clip.initPromise
    /\ clip' = [initPromise |-> TRUE, isInitialized |-> loaded, clipModelAvailable |-> loaded]
    /\ UNCHANGED <<personEmbeddingStore, db, calls, filenameIndex, files, loads, requests>>

\* the end of POST /api/upload: c is the classification
StoreUpload(filename, originalname, embedding, c) ==
    /\ Len(c.store) <= MaxPersons
    /\ personEmbeddingStore' = c.store
    /\ db' = addImageToCollections(db,
                [filename |-> filename, originalName |-> originalname,
                 embedding |-> embedding, tags |-> c.customTags, autoTags |-> c.autoTags,
                 organized |-> FALSE, organizedPaths |-> <<>>],
                0).db
    /\ calls' = <<[op |-> "upload", filename |-> filename, originalName |-> originalname,
                   customTags |-> c.customTags, autoTags |-> c.autoTags,
                   method |-> c.method, status |-> 201,
                   requestTags |-> c.requestTags, labelSource |-> c.labelSource]>>
    /\ UNCHANGED <<clip, filenameIndex, loads, requests>>

\* POST /api/upload.  multer has stored the file under filename, a name no
\* other upload got; embedding is the parsed request embedding or the
\* generated one.
Upload(filename, originalname, embedding, tagString, clipTags, clipThrows) ==
    /\ Cardinality(files.uploads) < MaxUploads
    /\ filename \notin StoredFilenames(db)
    /\ filename \notin files.uploads
    /\ files' = [files EXCEPT !.uploads = @ \cup {filename}]
    /\ StoreUpload(filename, originalname, embedding,
                   ClassifyUpload(personEmbeddingStore, clip.clipModelAvailable, originalname,
                                  embedding, ParseTags(tagString), clipTags, clipThrows))

\* the end of PUT /api/images/:filename/tags: c is the classification
StoreUpdate(filename, customTags, existingImage, c) ==
    /\ Len(c.store) <= MaxPersons
    /\ personEmbeddingStore' = c.store
    /\ db' = addImageToCollections(removeImageFromCollections(db, filename, 0).db,
                [filename |-> existingImage.filename,
                 originalName |-> existingImage.originalName,
                 embedding |-> existingImage.embedding,
                 tags |-> customTags, autoTags |-> c.autoTags,
                 organized |-> FALSE, organizedPaths |-> <<>>],
                0).db
    /\ calls' = <<[op |-> "updateTags", filename |-> filename,
                   originalName |-> existingImage.originalName,
                   customTags |-> customTags, autoTags |-> c.autoTags,
                   method |-> c.method, status |-> 200,
                   requestTags |-> customTags, labelSource |-> "unused",
                   oldCollections |-> {m \in DOMAIN db :
                                         \E d \in db[m] : EntryCount(d, filename) > 0}]>>
    /\ UNCHANGED <<clip, filenameIndex, files, loads, requests>>

ClassifyAndStoreUpdate(filename, customTags, existingImage) ==
    StoreUpdate(filename, customTags, existingImage,
                ClassifyUpdate(personEmbeddingStore, customTags, existingImage))

\* res.status(404).json({ error: 'Image not found' })
NotFound(op, filename) ==
    /\ calls' = <<[op |-> op, filename |-> filename, originalName |-> null,
                   customTags |-> <<>>, autoTags |-> EmptyAutoTags, method |-> null,
                   status |-> 404]>>
    /\ UNCHANGED <<personEmbeddingStore, db, clip, filenameIndex, files, loads, requests>>

\* PUT /api/images/:filename/tags with an array of tags
UpdateTags(filename, tags) ==
    IF filename \in StoredFilenames(db)    \* existingImage is not null
    THEN ClassifyAndStoreUpdate(filename, NormalizeTags(tags),
                                findImageByFilename(db, filename))
    ELSE NotFound("updateTags", filename)

\* DELETE /api/images/:filename
DeleteImage(filename) ==
    /\ db' = removeImageFromCollections(db, filename, 0).db
    /\ files' = [files EXCEPT !.uploads = @ \ {filename}]    \* fs.unlinkSync if it exists
    /\ calls' = <<[op |-> "delete", filename |-> filename, originalName |-> null,
                   customTags |-> <<>>, autoTags |-> EmptyAutoTags, method |-> null,
                   status |-> 200]>>
    /\ UNCHANGED <<personEmbeddingStore, clip, filenameIndex, loads, requests>>

\* what the CLIP tagger does with an image: analyzeImage throws, or
\* generateCLIPTags returns null (tags <<>>) or the top five tags of the pipeline
ClipOutcomes ==
    { [throws |-> TRUE,  tags |-> <<>>],
      [throws |-> FALSE, tags |-> <<>>],
      [throws |-> FALSE, tags |-> <<"dog", "car", "outdoor", "happy", "sunny">>],
      [throws |-> FALSE, tags |-> <<"food", "meal", "table", "indoor", "restaurant">>] }

\* the file names of the requests: a stored image or a file nobody uploaded
RequestFilenames(database) == StoredFilenames(database) \cup {"0-missing.jpg"}

UploadEmbeddings == {EmbA, EmbD}

UploadTagStrings == {"", "Holiday", " Dog, car", "family"}

UpdateTagLists == {<<>>, <<"Holiday ">>, <<"cat", "puppy">>, <<"my car", "portrait">>}

ClassifyNext ==
    \/ \E loaded \in BOOLEAN : InitializeCLIP(loaded)
    \/ \E timestamp \in Timestamps, originalname \in Filenames,
          embedding \in UploadEmbeddings, tagString \in UploadTagStrings,
          outcome \in (IF clip.clipModelAvailable THEN ClipOutcomes
                       ELSE {[throws |-> FALSE, tags |-> <<>>]}) :
          Upload(MulterFilename(timestamp, originalname), originalname, embedding, tagString,
                 outcome.tags, outcome.throws)
    \/ \E filename \in RequestFilenames(db), tags \in UpdateTagLists :
          UpdateTags(filename, tags)
    \/ \E filename \in RequestFilenames(db) : DeleteImage(filename)

SpecClassify == Init /\ [][ClassifyNext]_vars

(***************************************************************************)
(* Folder paths: ImageProcessor called directly                            *)
(***************************************************************************)
\* the AutoTags of the stored images: every combination of the flags
FolderAutoTags ==
    {[person_id |-> p, nature |-> n, pets |-> pt, vehicle |-> v, objects |-> <<"uncategorized">>] :
        p \in {null, "person_0001", "person_0042"}, n \in BOOLEAN, pt \in BOOLEAN, v \in BOOLEAN}

\* the tags of the stored images, as the requests carry them
FolderTagStrings ==
    {"", "beach", "Beach, my dog", "holiday ,beach", " , zoo", "my dog,holiday", "zoo, ,Beach"}

GetAllFolderPaths(autoTags, customTags) ==
    /\ calls' = <<[op |-> "getAllFolderPaths", autoTags |-> autoTags,
                   customTags |-> customTags,
                   folders |-> getAllFolderPaths(autoTags, customTags),
                   folderPath |-> determineFolderPath(autoTags, customTags)]>>
    /\ UNCHANGED <<personEmbeddingStore, db, clip, filenameIndex, files, loads, requests>>

\* tag lists of a direct call, padded and blank tags included
FolderRawTags ==
    {<<" ">>, <<" beach ", " ", "my dog">>, <<"Zoo", "", "  zoo">>}

FolderTagLists == {ParseTags(tagString) : tagString \in FolderTagStrings} \cup FolderRawTags

FoldersNext ==
    \E autoTags \in FolderAutoTags, customTags \in FolderTagLists :
        GetAllFolderPaths(autoTags, customTags)

SpecFolders == Init /\ [][FoldersNext]_vars

(***************************************************************************)
(* Organizing, reprocessing and reorganizing (server.js)                   *)
(***************************************************************************)
OrganizedDir == "organized"

\* path.join of a directory and a name that holds no '.' or '..' segment
PathJoin(dir, name) == dir \o "/" \o name

\* targetPath of every folder path, in order
TargetPaths(filename, folderPaths) ==
    [k \in 1..Len(folderPaths) |-> PathJoin(PathJoin(OrganizedDir, folderPaths[k]), filename)]

Range(seq) == {seq[k] : k \in 1..Len(seq)}

\* { $set: { 'images.$.organized', 'images.$.organizedPaths' } }: the
\* positional operator sets the first entry of the document that matches
SetOrganized(doc, filename, organized, organizedPaths) ==
    IF EntryCount(doc, filename) = 0 THEN doc
    ELSE [doc EXCEPT
            !.images[Min({i \in 1..Len(doc.images) : doc.images[i].filename = filename})] =
                [@ EXCEPT !.organized = organized, !.organizedPaths = organizedPaths]]

updateImageOrganizedStatus(database, filename, organized, organizedPaths) ==
    [m \in DOMAIN database |->
        {SetOrganized(d, filename, organized, organizedPaths) : d \in database[m]}]

\* CollectionSync.getAllImages: the first entry found of every file name
getAllImages(database) ==
    {findImageByFilename(database, filename) : filename \in StoredFilenames(database)}

\* one pass of the image loop of POST /api/organize; s holds the database,
\* the paths of organized/ and the results so far
OrganizeImage(s, uploads, image, folderPaths) ==
    [db |-> updateImageOrganizedStatus(s.db, image.filename, TRUE,
               IF image.filename \in uploads    \* fs.existsSync(sourcePath)
               THEN TargetPaths(image.filename, folderPaths) ELSE <<>>),
     organized |-> IF image.filename \in uploads
                   THEN s.organized \cup Range(TargetPaths(image.filename, folderPaths))
                   ELSE s.organized,
     results |-> s.results \cup {[filename |-> image.filename, organizedTo |-> folderPaths]}]

\* the image loop; the passes of different images commute
RECURSIVE OrganizeImages(_, _, _)
OrganizeImages(s, uploads, images) ==
    IF images = {} THEN s
    ELSE OrganizeImages(
           OrganizeImage(s, uploads, CHOOSE image \in images : TRUE,
                         getAllFolderPaths((CHOOSE image \in images : TRUE).autoTags,
                                           (CHOOSE image \in images : TRUE).tags)),
           uploads, images \ {CHOOSE image \in images : TRUE})

\* the end of POST /api/organize: s is the state after the image loop
Organized(filename, s) ==
    /\ db' = s.db
    /\ files' = [files EXCEPT !.organized = s.organized]
    /\ calls' = <<[op |-> "organize", filename |-> filename, status |-> 200,
                   results |-> s.results]>>
    /\ UNCHANGED <<personEmbeddingStore, clip, filenameIndex, loads, requests>>

\* POST /api/organize; filename is "" when the request names no image
Organize(filename) ==
    IF filename = ""
    THEN Organized(filename,
                   OrganizeImages([db |-> db, organized |-> files.organized, results |-> {}],
                                  files.uploads,
                                  {image \in getAllImages(db) : ~image.organized}))
    ELSE IF filename \in StoredFilenames(db)
    THEN Organized(filename,
                   OrganizeImages([db |-> db, organized |-> files.organized, results |-> {}],
                                  files.uploads, {findImageByFilename(db, filename)}))
    ELSE NotFound("organize", filename)

\* DELETE /api/images/:filename while the database rejects statement failAt
\* of removeImageFromCollections (0: none): the result of the removal is not
\* read and the file is unlinked
DeleteImageWith(filename, failAt) ==
    /\ db' = removeImageFromCollections(db, filename, failAt).db
    /\ files' = [files EXCEPT !.uploads = @ \ {filename}]
    /\ calls' = <<[op |-> "delete", filename |-> filename, originalName |-> null,
                   customTags |-> <<>>, autoTags |-> EmptyAutoTags, method |-> null,
                   status |-> 200, failAt |-> failAt]>>
    /\ UNCHANGED <<personEmbeddingStore, clip, filenameIndex, loads, requests>>

\* /\.(jpg|jpeg|png|gif|webp)$/i.test(f)
IsImageFile(f) ==
    \E ext \in {".jpg", ".jpeg", ".png", ".gif", ".webp"} :
        /\ Len(f) >= Len(ext)
        /\ toLowerCase(SubSeq(f, Len(f) - Len(ext) + 1, Len(f))) = ext

\* the classification of reprocess and reorganize by clipTagger.analyzeImage
FileByClip(store, clipResult, clipTags) ==
    [autoTags |-> clipResult.autoTags, store |-> store, method |-> clipResult.method,
     labelSource |-> IF clipTags = <<>> THEN "nothing" ELSE "tags"]

\* the classification of reprocess and reorganize by ImageProcessor.analyzeEmbedding
FileByEmbedding(analyzed, clipAvailable) ==
    [autoTags |-> analyzed.autoTags, store |-> analyzed.store, method |-> "analyzeEmbedding",
     labelSource |-> IF clipAvailable THEN "throws" ELSE "unavailable"]

ClassifyFile(store, clipAvailable, filename, embedding, outcome) ==
    IF clipAvailable /\ ~outcome.throws
    THEN FileByClip(store, analyzeImage(outcome.tags, filename), outcome.tags)
    ELSE FileByEmbedding(analyzeEmbedding(store, embedding, filename), clipAvailable)

\* one pass of the file loop of POST /api/reprocess (organizedPaths <<>>) and
\* of POST /api/reorganize (the paths of the copies); c is the classification
ProcessFile(s, filename, embedding, c, organized, organizedPaths) ==
    [store |-> c.store,
     db |-> addImageToCollections(s.db,
               [filename |-> filename, originalName |-> filename, embedding |-> embedding,
                tags |-> <<>>, autoTags |-> c.autoTags,
                organized |-> organized, organizedPaths |-> organizedPaths],
               0).db,
     organized |-> s.organized \cup Range(organizedPaths),
     results |-> Append(s.results,
                    [filename |-> filename, autoTags |-> c.autoTags, method |-> c.method,
                     labelSource |-> c.labelSource])]

ReorganizeFile(s, filename, embedding, c) ==
    ProcessFile(s, filename, embedding, c, TRUE,
                TargetPaths(filename, getAllFolderPaths(c.autoTags, <<>>)))

\* the file loop: embeddings and outcomes give, for every file, its generated
\* embedding and what the CLIP tagger does with it
RECURSIVE ProcessFiles(_, _, _, _, _, _)
ProcessFiles(s, clipAvailable, uploadedFiles, embeddings, outcomes, reorganize) ==
    IF uploadedFiles = <<>> THEN s
    ELSE ProcessFiles(
           IF reorganize
           THEN ReorganizeFile(s, Head(uploadedFiles), embeddings[Head(uploadedFiles)],
                               ClassifyFile(s.store, clipAvailable, Head(uploadedFiles),
                                            embeddings[Head(uploadedFiles)],
                                            outcomes[Head(uploadedFiles)]))
           ELSE ProcessFile(s, Head(uploadedFiles), embeddings[Head(uploadedFiles)],
                            ClassifyFile(s.store, clipAvailable, Head(uploadedFiles),
                                         embeddings[Head(uploadedFiles)],
                                         outcomes[Head(uploadedFiles)]),
                            FALSE, <<>>),
           clipAvailable, Tail(uploadedFiles), embeddings, outcomes, reorganize)

\* the end of POST /api/reprocess and POST /api/reorganize
Processed(op, s) ==
    /\ personEmbeddingStore' = s.store
    /\ db' = s.db
    /\ files' = [files EXCEPT !.organized = s.organized]
    /\ calls' = <<[op |-> op, filename |-> "", status |-> 200, results |-> s.results]>>
    /\ UNCHANGED <<clip, filenameIndex, loads, requests>>

\* the orders in which fs.readdirSync may list the files
Orderings(S) ==
    {seq \in [1..Cardinality(S) -> S] : \A i, j \in 1..Cardinality(S) : i # j => seq[i] # seq[j]}

\* POST /api/reprocess: clearAllCollections, clearPersonStore, the file loop
Reprocess(uploadedFiles, embeddings, outcomes) ==
    Processed("reprocess",
              ProcessFiles([store |-> <<>>, db |-> EmptyDb, organized |-> files.organized,
                            results |-> <<>>],
                           clip.clipModelAvailable, uploadedFiles, embeddings, outcomes, FALSE))

\* POST /api/reorganize: emptyDirSync(organizedDir), clearAllCollections,
\* clearPersonStore, the file loop
Reorganize(uploadedFiles, embeddings, outcomes) ==
    Processed("reorganize",
              ProcessFiles([store |-> <<>>, db |-> EmptyDb, organized |-> {}, results |-> <<>>],
                           clip.clipModelAvailable, uploadedFiles, embeddings, outcomes, TRUE))

OrganizeFilenames == {"my_dog_in_the_car.jpg", "IMG_1234.jpg"}

OrganizeTagStrings == {"Holiday"}

OrganizeTagLists == {<<"cat">>}

\* the statement of removeImageFromCollections that the database rejects
DeleteFailures == {0, 1}

OrganizeEmbeddings == {EmbA}

OrganizeOutcomes ==
    IF clip.clipModelAvailable
    THEN {outcome \in ClipOutcomes : outcome.tags = <<>>}
    ELSE {[throws |-> FALSE, tags |-> <<>>]}

OrganizeNext ==
    \/ \E loaded \in BOOLEAN : InitializeCLIP(loaded)
    \/ \E timestamp \in Timestamps, originalname \in OrganizeFilenames,
          tagString \in OrganizeTagStrings, outcome \in OrganizeOutcomes :
          /\ Cardinality(StoredFilenames(db)) < MaxUploads    \* as many images as files
          /\ Upload(MulterFilename(timestamp, originalname), originalname, EmbA, tagString,
                    outcome.tags, outcome.throws)
    \/ \E filename \in RequestFilenames(db), tags \in OrganizeTagLists :
          UpdateTags(filename, tags)
    \/ \E filename \in RequestFilenames(db), failAt \in DeleteFailures :
          DeleteImageWith(filename, failAt)
    \/ \E filename \in RequestFilenames(db) \cup {""} : Organize(filename)
    \/ \E uploadedFiles \in Orderings({f \in files.uploads : IsImageFile(f)}),
          embeddings \in [files.uploads -> OrganizeEmbeddings],
          outcomes \in [files.uploads -> OrganizeOutcomes] :
          Reprocess(uploadedFiles, embeddings, outcomes)
    \/ \E uploadedFiles \in Orderings({f \in files.uploads : IsImageFile(f)}),
          embeddings \in [files.uploads -> OrganizeEmbeddings],
          outcomes \in [files.uploads -> OrganizeOutcomes] :
          Reorganize(uploadedFiles, embeddings, outcomes)

SpecOrganize == Init /\ [][OrganizeNext]_vars

(***************************************************************************)
(* Loading the models: CLIPTagger.initialize and MLImageTagger's           *)
(* initializeModel, one step per call and one per load that settles        *)
(***************************************************************************)
\* initializeModel starts at most this many loads
MaxLoads == 3

\* what a call did: started a load, got the promise of the load started
\* before, found the model, or classified without the model
Called(op, caller, outcome) ==
    calls' = <<[op |-> op, caller |-> caller, outcome |-> outcome,
                pending |-> loads.clipPending, mobilenetPending |-> loads.mobilenetPending]>>

\* CLIPTagger.initialize(), up to its return: by the start of the server, by
\* analyzeImage (which the handlers call when clipModelAvailable), or directly
ClipInitialize(caller) ==
    /\ caller = "startup" => ~clip.initPromise
    /\ caller = "analyzeImage" => clip.clipModelAvailable
    /\ caller = "direct" => clip.initPromise
    /\ IF clip.isInitialized
       THEN Called("initialize", caller, "true") /\ UNCHANGED <<clip, loads>>
       ELSE IF clip.initPromise
       THEN Called("initialize", caller, "initPromise") /\ UNCHANGED <<clip, loads>>
       ELSE /\ clip' = [clip EXCEPT !.initPromise = TRUE]
            /\ loads' = [loads EXCEPT !.clipStarted = @ + 1, !.clipPending = TRUE]
            /\ Called("initialize", caller, "load")
    /\ UNCHANGED <<personEmbeddingStore, db, filenameIndex, files, requests>>

\* the pipeline() call of initialize settles; the await of the start of the
\* server assigns clipModelAvailable
ClipLoadSettles(loaded) ==
    /\ loads.clipPending
    /\ loads' = [loads EXCEPT !.clipPending = FALSE]
    /\ clip' = [clip EXCEPT !.isInitialized = loaded, !.clipModelAvailable = loaded]
    /\ Called("pipeline", "initialize", IF loaded THEN "loaded" ELSE "failed")
    /\ UNCHANGED <<personEmbeddingStore, db, filenameIndex, files, requests>>

\* a handler chooses its classifier: analyzeImage when clipModelAvailable,
\* analyzeEmbedding otherwise
ChooseClassifier ==
    /\ Called("classify", "upload", IF clip.clipModelAvailable THEN "analyzeImage"
                                    ELSE "analyzeEmbedding")
    /\ UNCHANGED <<personEmbeddingStore, db, clip, filenameIndex, files, loads, requests>>

\* initializeModel(), up to its await: by the start of the server or by classifyImage
InitializeModel(caller) ==
    /\ caller = "startup" => loads.mobilenetStarted = 0
    /\ IF ~loads.model
       THEN /\ loads.mobilenetStarted < MaxLoads
            /\ loads' = [loads EXCEPT !.mobilenetStarted = @ + 1, !.mobilenetPending = @ + 1]
            /\ Called("initializeModel", caller, "load")
       ELSE Called("initializeModel", caller, "model") /\ UNCHANGED loads
    /\ UNCHANGED <<personEmbeddingStore, db, clip, filenameIndex, files, requests>>

\* a mobilenet.load() settles: model is assigned, or the call throws
MobilenetLoadSettles(loaded) ==
    /\ loads.mobilenetPending > 0
    /\ loads' = [loads EXCEPT !.mobilenetPending = @ - 1, !.model = @ \/ loaded]
    /\ Called("mobilenet.load", "initializeModel", IF loaded THEN "loaded" ELSE "failed")
    /\ UNCHANGED <<personEmbeddingStore, db, clip, filenameIndex, files, requests>>

LoadNext ==
    \/ \E caller \in {"startup", "analyzeImage", "direct"} : ClipInitialize(caller)
    \/ \E loaded \in BOOLEAN : ClipLoadSettles(loaded)
    \/ ChooseClassifier
    \/ \E caller \in {"startup", "classifyImage"} : InitializeModel(caller)
    \/ \E loaded \in BOOLEAN : MobilenetLoadSettles(loaded)

SpecLoad == Init /\ [][LoadNext]_vars

(***************************************************************************)
(* Concurrent uploads: POST /api/upload, one step per stretch between two  *)
(* awaits                                                                  *)
(***************************************************************************)
\* at most this many uploads are begun
MaxRequests == 2

RemoveAt(seq, i) == SubSeq(seq, 1, i - 1) \o SubSeq(seq, i + 1, Len(seq))

\* the file names of the uploads begun
BegunFilenames == {requests[i].filename : i \in 1..Len(requests)}
                  \cup {calls[i].filename : i \in 1..Len(calls)}

\* the request is suspended at await CollectionSync.addImageToCollections
AwaitStore(filename, originalname, embedding, c) ==
    /\ Len(c.store) <= MaxPersons
    /\ personEmbeddingStore' = c.store
    /\ requests' = Append(requests,
                      [stage |-> "addImageToCollections", filename |-> filename,
                       originalname |-> originalname, embedding |-> embedding,
                       customTags |-> c.customTags, autoTags |-> c.autoTags,
                       method |-> c.method])

\* the request is suspended at await clipTagger.analyzeImage
AwaitClip(filename, originalname, embedding, customTags) ==
    /\ requests' = Append(requests,
                      [stage |-> "analyzeImage", filename |-> filename,
                       originalname |-> originalname, embedding |-> embedding,
                       customTags |-> customTags, autoTags |-> EmptyAutoTags,
                       method |-> null])
    /\ UNCHANGED personEmbeddingStore

\* POST /api/upload up to its first await
BeginUpload(filename, originalname, embedding, tagString) ==
    /\ Len(requests) + Len(calls) < MaxRequests
    /\ filename \notin BegunFilenames
    /\ files' = [files EXCEPT !.uploads = @ \cup {filename}]
    /\ IF FindUserCategory(ParseTags(tagString)) # null \/ ~clip.clipModelAvailable
       THEN AwaitStore(filename, originalname, embedding,
                       ClassifyUpload(personEmbeddingStore, clip.clipModelAvailable,
                                      originalname, embedding, ParseTags(tagString),
                                      <<>>, FALSE))
       ELSE AwaitClip(filename, originalname, embedding, ParseTags(tagString))
    /\ UNCHANGED <<db, clip, calls, filenameIndex, loads>>

\* clipTagger.analyzeImage settles for request i: the classification up to
\* await CollectionSync.addImageToCollections
ClipSettles(i, c) ==
    /\ Len(c.store) <= MaxPersons
    /\ personEmbeddingStore' = c.store
    /\ requests' = [requests EXCEPT ![i] =
                       [@ EXCEPT !.stage = "addImageToCollections",
                                 !.customTags = c.customTags, !.autoTags = c.autoTags,
                                 !.method = c.method]]
    /\ UNCHANGED <<db, clip, calls, filenameIndex, files, loads>>

ResumeUpload(i, outcome) ==
    /\ requests[i].stage = "analyzeImage"
    /\ ClipSettles(i, ClassifyUpload(personEmbeddingStore, TRUE, requests[i].originalname,
                                     requests[i].embedding, requests[i].customTags,
                                     outcome.tags, outcome.throws))

\* addImageToCollections settles for request i: the response
FinishUpload(i) ==
    /\ requests[i].stage = "addImageToCollections"
    /\ db' = addImageToCollections(db,
                [filename |-> requests[i].filename,
                 originalName |-> requests[i].originalname,
                 embedding |-> requests[i].embedding, tags |-> requests[i].customTags,
                 autoTags |-> requests[i].autoTags,
                 organized |-> FALSE, organizedPaths |-> <<>>],
                0).db
    /\ calls' = Append(calls,
                   [op |-> "upload", filename |-> requests[i].filename,
                    originalName |-> requests[i].originalname,
                    embedding |-> requests[i].embedding,
                    customTags |-> requests[i].customTags,
                    autoTags |-> requests[i].autoTags, method |-> requests[i].method,
                    status |-> 201, inFlight |-> Len(requests) - 1])
    /\ requests' = RemoveAt(requests, i)
    /\ UNCHANGED <<personEmbeddingStore, clip, filenameIndex, files, loads>>

ConcurrentFilenames == {"IMG_1234.jpg", "family_birthday_party.jpg", "x.png"}

ConcurrentEmbeddings == {EmbA, EmbD}

ConcurrentTagStrings == {"", "family"}

\* analyzeImage throws, or generateCLIPTags returns the tags of a portrait
ConcurrentOutcomes ==
    { [throws |-> TRUE,  tags |-> <<>>],
      [throws |-> FALSE, tags |-> <<"portrait", "person", "smile", "indoor", "happy">>] }

ConcurrentNext ==
    \/ \E loaded \in BOOLEAN : InitializeCLIP(loaded)
    \/ \E timestamp \in Timestamps, originalname \in ConcurrentFilenames,
          embedding \in ConcurrentEmbeddings, tagString \in ConcurrentTagStrings :
          BeginUpload(MulterFilename(timestamp, originalname), originalname, embedding,
                      tagString)
    \/ \E i \in 1..Len(requests), outcome \in ConcurrentOutcomes : ResumeUpload(i, outcome)
    \/ \E i \in 1..Len(requests) : FinishUpload(i)

SpecConcurrent == Init /\ [][ConcurrentNext]_vars

(***************************************************************************)
(* The requests on images and their files: upload, re-tag, organize,       *)
(* delete and the image list                                               *)
(***************************************************************************)
\* the categories that getAllImages gives an image: those of the first
\* collection, in the order Person, Pet, Nature, Vehicle, with an entry for
\* it; the later collections find the file name in seenFilenames
ListedCategories(database, filename) ==
    IF \E d \in database.Person : EntryCount(d, filename) > 0 THEN <<"person">>
    ELSE IF \E d \in database.Pet : EntryCount(d, filename) > 0 THEN <<"pet">>
    ELSE IF \E d \in database.Nature : EntryCount(d, filename) > 0
    THEN IF \E d \in database.Nature : EntryCount(d, filename) > 0 /\ d.key # "uncategorized"
         THEN <<"nature">> ELSE <<"uncategorized">>
    ELSE <<"vehicle">>

\* GET /api/images?category=...: the file names and categories of the list
GetImages(category) ==
    /\ calls' = <<[op |-> "getImages", filename |-> "", status |-> 200, category |-> category,
                   images |-> {[filename |-> image.filename,
                                categories |-> ListedCategories(db, image.filename)] :
                                 image \in {i \in getAllImages(db) :
                                    SeqIncludes(ListedCategories(db, i.filename), category)}}]>>
    /\ UNCHANGED <<personEmbeddingStore, db, clip, filenameIndex, files, loads, requests>>

ListCategories == {"person", "pet", "nature", "vehicle", "uncategorized"}

FilesTagLists == {<<"cat">>, <<"holiday">>}

FilesNext ==
    \/ \E timestamp \in Timestamps, originalname \in OrganizeFilenames,
          tagString \in OrganizeTagStrings :
          Upload(MulterFilename(timestamp, originalname), originalname, EmbA, tagString,
                 <<>>, FALSE)
    \/ \E filename \in RequestFilenames(db), tags \in FilesTagLists :
          UpdateTags(filename, tags)
    \/ \E filename \in RequestFilenames(db) : DeleteImage(filename)
    \/ \E filename \in RequestFilenames(db) \cup {""} : Organize(filename)
    \/ \E category \in ListCategories : GetImages(category)

SpecFiles == Init /\ [][FilesNext]_vars

(***************************************************************************)
(* PUT /api/images/:filename/tags step by step: the handler is suspended   *)
(* at each await, and other requests run in between.                       *)
(***************************************************************************)
\* const existingImage = await CollectionSync.findImageByFilename(filename):
\* the request goes on to await removeImageFromCollections
FindExisting(filename, tags) ==
    /\ Len(requests) < MaxRequests
    /\ IF filename \in StoredFilenames(db)
       THEN /\ requests' = Append(requests,
                              [stage |-> "removeImageFromCollections", filename |-> filename,
                               tags |-> tags,
                               existingImage |-> findImageByFilename(db, filename),
                               autoTags |-> EmptyAutoTags, method |-> null])
            /\ UNCHANGED <<personEmbeddingStore, db, clip, calls, filenameIndex, files, loads>>
       ELSE NotFound("updateTags", filename)

\* the request goes on to await addImageToCollections with classification c
AwaitAdd(i, c) ==
    /\ Len(c.store) <= MaxPersons
    /\ personEmbeddingStore' = c.store
    /\ requests' = [requests EXCEPT ![i].stage = "addImageToCollections",
                                    ![i].autoTags = c.autoTags, ![i].method = c.method]

\* await CollectionSync.removeImageFromCollections(filename) settles, and the
\* handler classifies the new tags up to await addImageToCollections
RemoveExisting(i) ==
    /\ requests[i].stage = "removeImageFromCollections"
    /\ db' = removeImageFromCollections(db, requests[i].filename, 0).db
    /\ AwaitAdd(i, ClassifyUpdate(personEmbeddingStore, NormalizeTags(requests[i].tags),
                                  requests[i].existingImage))
    /\ UNCHANGED <<clip, calls, filenameIndex, files, loads>>

\* await CollectionSync.addImageToCollections(updatedImageData) settles and
\* the response is sent
AddUpdated(i) ==
    /\ requests[i].stage = "addImageToCollections"
    /\ db' = addImageToCollections(db,
                [filename |-> requests[i].existingImage.filename,
                 originalName |-> requests[i].existingImage.originalName,
                 embedding |-> requests[i].existingImage.embedding,
                 tags |-> NormalizeTags(requests[i].tags), autoTags |-> requests[i].autoTags,
                 organized |-> FALSE, organizedPaths |-> <<>>],
                0).db
    /\ calls' = <<[op |-> "updateTags", filename |-> requests[i].filename,
                   originalName |-> requests[i].existingImage.originalName,
                   customTags |-> NormalizeTags(requests[i].tags),
                   autoTags |-> requests[i].autoTags, method |-> requests[i].method,
                   status |-> 200, requestTags |-> NormalizeTags(requests[i].tags),
                   labelSource |-> "unused", inFlight |-> Len(requests) - 1]>>
    /\ requests' = RemoveAt(requests, i)
    /\ UNCHANGED <<personEmbeddingStore, clip, filenameIndex, files, loads>>

RetagNext ==
    \/ \E timestamp \in Timestamps, originalname \in OrganizeFilenames,
          tagString \in UploadTagStrings :
          Upload(MulterFilename(timestamp, originalname), originalname, EmbA, tagString,
                 <<>>, FALSE)
    \/ \E filename \in RequestFilenames(db), tags \in UpdateTagLists :
          FindExisting(filename, tags)
    \/ \E i \in 1..Len(requests) : RemoveExisting(i)
    \/ \E i \in 1..Len(requests) : AddUpdated(i)

SpecRetag == Init /\ [][RetagNext]_vars

(***************************************************************************)
(* The bulk rebuilds among uploads, re-tags and deletions.                 *)
(***************************************************************************)
RebuildFilenames == {"IMG_1234.jpg", "my_dog_in_the_car.jpg"} \cup BitmapFilenames

RebuildNext ==
    \/ \E loaded \in BOOLEAN : InitializeCLIP(loaded)
    \/ \E timestamp \in Timestamps, originalname \in RebuildFilenames,
          tagString \in OrganizeTagStrings, outcome \in OrganizeOutcomes :
          Upload(MulterFilename(timestamp, originalname), originalname, EmbA, tagString,
                 outcome.tags, outcome.throws)
    \/ \E filename \in RequestFilenames(db), tags \in FilesTagLists : UpdateTags(filename, tags)
    \/ \E filename \in RequestFilenames(db) : DeleteImage(filename)
    \/ \E uploadedFiles \in Orderings({f \in files.uploads : IsImageFile(f)}),
          embeddings \in [files.uploads -> OrganizeEmbeddings],
          outcomes \in [files.uploads -> OrganizeOutcomes] :
          Reprocess(uploadedFiles, embeddings, outcomes)
    \/ \E uploadedFiles \in Orderings({f \in files.uploads : IsImageFile(f)}),
          embeddings \in [files.uploads -> OrganizeEmbeddings],
          outcomes \in [files.uploads -> OrganizeOutcomes] :
          Reorganize(uploadedFiles, embeddings, outcomes)

SpecRebuild == Init /\ [][RebuildNext]_vars

(***************************************************************************)
(* Properties of the identity registry                                     *)
(***************************************************************************)
PersonIdLiteral ==
    <<"person_0001", "person_0002", "person_0003", "person_0004", "person_0005",
      "person_0006">>

PersonNumber(personId) == CHOOSE n \in 1..Len(PersonIdLiteral) : PersonIdLiteral[n] = personId

\* the similarity of the signatures of two embeddings
Similarity(e1, e2) ==
    calculateSimilarity(generateEmbeddingSignature(e1), generateEmbeddingSignature(e2))

\* similarity >= 0.85, similarity > 0.85 and similarity < 0.85, with 0.85 = 17/20
AtLeast085(sim) == ~sim.zero /\ sim.dot > 0 /\ 400 * sim.dot * sim.dot >= 289 * sim.norm1 * sim.norm2

Above085(sim) == ~sim.zero /\ sim.dot > 0 /\ 400 * sim.dot * sim.dot > 289 * sim.norm1 * sim.norm2

Below085(sim) == ~AtLeast085(sim)

TwoResolves ==
    /\ Len(calls) = 2
    /\ calls[1].op = "findOrCreatePersonId"
    /\ calls[2].op = "findOrCreatePersonId"

\* the call stored a new identity
Minted(call) == Len(call.after) = Len(call.before) + 1

\* no identity stored before the call is similar to the embedding above 0.85
NoneStoredAbove(call, embedding) ==
    \A i \in 1..Len(call.before) :
        ~Above085(calculateSimilarity(generateEmbeddingSignature(embedding),
                                      call.before[i].signature))

\* C3 as stated: whatever the registry holds, two consecutive resolve calls
\* whose embeddings have signature similarity >= 0.85 return the same personId.
C3_SameAtLeastThreshold ==
    (TwoResolves /\ AtLeast085(Similarity(calls[1].embedding, calls[2].embedding)))
        => calls[1].personId = calls[2].personId

\* C3 amended: when resolve(e1) mints a new identity, the signature similarity
\* of e1 and e2 is strictly above 0.85 and no identity stored before e1 is
\* similar to e2 above 0.85, the next call resolve(e2) returns e1's personId.
C3_SameWhenFirstMatch ==
    (/\ TwoResolves
     /\ Minted(calls[1])
     /\ Above085(Similarity(calls[1].embedding, calls[2].embedding))
     /\ NoneStoredAbove(calls[1], calls[2].embedding))
        => calls[2].personId = calls[1].personId

\* C3 witness: a second identity was minted for e1 into a registry that is not
\* empty, and a different embedding e2 was resolved to it
C3_Witness ==
    /\ TwoResolves
    /\ Minted(calls[1])
    /\ Len(calls[1].before) > 0
    /\ calls[1].embedding # calls[2].embedding
    /\ Above085(Similarity(calls[1].embedding, calls[2].embedding))
    /\ NoneStoredAbove(calls[1], calls[2].embedding)
    /\ calls[2].personId = calls[1].personId

\* C4 as stated: whatever the registry holds, two consecutive resolve calls
\* whose embeddings have signature similarity below 0.85 return different
\* personIds, the first call the numerically smaller one.
C4_DifferentBelowThreshold ==
    (TwoResolves /\ Below085(Similarity(calls[1].embedding, calls[2].embedding)))
        => /\ calls[1].personId # calls[2].personId
           /\ PersonNumber(calls[1].personId) < PersonNumber(calls[2].personId)

\* C4 amended: when resolve(e1) mints a new identity, the similarity of e1 and
\* e2 is below 0.85 and no identity stored before e1 is similar to e2 above
\* 0.85, resolve(e2) mints a different identity with the next larger number.
C4_DifferentWhenBothNew ==
    (/\ TwoResolves
     /\ Minted(calls[1])
     /\ Below085(Similarity(calls[1].embedding, calls[2].embedding))
     /\ NoneStoredAbove(calls[1], calls[2].embedding))
        => /\ calls[1].personId # calls[2].personId
           /\ PersonNumber(calls[2].personId) = PersonNumber(calls[1].personId) + 1

\* C4 witness: two dissimilar embeddings were minted one after the other into
\* a registry that already held an identity
C4_Witness ==
    /\ TwoResolves
    /\ Minted(calls[1])
    /\ Minted(calls[2])
    /\ Len(calls[1].before) > 0
    /\ Below085(Similarity(calls[1].embedding, calls[2].embedding))
    /\ PersonNumber(calls[2].personId) = PersonNumber(calls[1].personId) + 1

\* C5: a resolve call returns the personId of the first stored identity, in
\* insertion order, whose similarity to the presented signature exceeds 0.85
\* and then leaves the registry unchanged; when there is none it appends
\* {person_<N+1 padded to 4 digits>, signature} for the registry size N and
\* returns that id.
C5_ResolveResult ==
    \A k \in 1..Len(calls) :
        LET call == calls[k]
            signature == generateEmbeddingSignature(call.embedding)
            matching == {i \in 1..Len(call.before) :
                            Above085(calculateSimilarity(signature, call.before[i].signature))}
        IN call.op = "findOrCreatePersonId" =>
             IF matching # {}
             THEN /\ \E i \in matching :
                        /\ \A j \in matching : i <= j
                        /\ call.personId = call.before[i].personId
                  /\ call.after = call.before
             ELSE /\ call.personId = PersonIdLiteral[Len(call.before) + 1]
                  /\ call.after = call.before
                        \o <<[personId |-> call.personId, signature |-> signature]>>

\* C5 witness: the presented embedding matched two stored identities and the
\* call returned the one stored first
C5_Witness ==
    /\ Len(calls) > 0
    /\ LET call == calls[Len(calls)]
           signature == generateEmbeddingSignature(call.embedding)
       IN /\ call.op = "findOrCreatePersonId"
          /\ Len(call.before) >= 2
          /\ Above085(calculateSimilarity(signature, call.before[1].signature))
          /\ Above085(calculateSimilarity(signature, call.before[2].signature))
          /\ call.personId = "person_0001"

\* C5 second witness: a call minted person_0002 into a registry of size 1
C5_WitnessMint ==
    /\ Len(calls) > 0
    /\ calls[Len(calls)].op = "findOrCreatePersonId"
    /\ Len(calls[Len(calls)].before) = 1
    /\ calls[Len(calls)].personId = "person_0002"

TwoAnalyses ==
    /\ Len(calls) = 2
    /\ calls[1].op = "analyzeEmbedding"
    /\ calls[2].op = "analyzeEmbedding"
    /\ calls[1].embedding = calls[2].embedding
    /\ calls[1].filename = calls[2].filename

\* C6: two consecutive analyzeEmbedding calls with the same embedding and file
\* name return the same AutoTags; when the first call minted an identity the
\* second returns that person_id and does not grow the registry.
C6_Determinism ==
    TwoAnalyses =>
        /\ calls[1].autoTags = calls[2].autoTags
        /\ Minted(calls[1]) =>
              /\ calls[2].personId = calls[1].personId
              /\ Len(calls[2].after) = Len(calls[2].before)

\* C19 as stated: no personId is minted for two different identities, across
\* resets too, and a call other than a reset keeps every entry of the registry
\* where it is.
C19_UniquePersonIds ==
    /\ \A k \in 1..Len(calls) :
          calls[k].op # "clearPersonStore" =>
             /\ Len(calls[k].after) >= Len(calls[k].before)
             /\ SubSeq(calls[k].after, 1, Len(calls[k].before)) = calls[k].before
    /\ (/\ Len(calls) = 2
        /\ calls[1].op = "clearPersonStore"
        /\ Minted(calls[2])) =>
          \A i \in 1..Len(calls[1].before) :
             calls[1].before[i].personId = calls[2].personId
                => calls[1].before[i].signature = calls[2].after[Len(calls[2].after)].signature

(***************************************************************************)
(* Collection sync                                                         *)
(***************************************************************************)
TwoAdds ==
    /\ Len(calls) = 2
    /\ calls[1].op = "addImageToCollections" /\ calls[1].ok
    /\ calls[2].op = "addImageToCollections" /\ calls[2].ok
    /\ calls[1].imageData = calls[2].imageData

DestinationDocs(database, autoTags) ==
    LET destinations == Destinations(autoTags)
    IN {d \in AllDocuments(database) :
          \E i \in 1..Len(destinations) :
             /\ d \in database[destinations[i].model]
             /\ d.key = destinations[i].key}

ImageCountOf(database, model, key) ==
    LET doc == CHOOSE d \in database[model] : d.key = key IN doc.imageCount

\* C1: when addImageToCollections is called twice in a row with the same image
\* record and both calls succeed, then after the second call every destination
\* document has exactly one entry for the file name, and its imageCount is
\* the value it had after the first call.
C1_IdempotentSync ==
    [][ TwoAdds' =>
          LET imageData == calls'[2].imageData
              destinations == Destinations(imageData.autoTags)
          IN \A i \in 1..Len(destinations) :
                LET model == destinations[i].model
                    key == destinations[i].key
                IN /\ \E d \in db'[model] : d.key = key
                   /\ \A d \in db'[model] :
                         d.key = key => EntryCount(d, imageData.filename) = 1
                   /\ ImageCountOf(db', model, key) = ImageCountOf(db, model, key) ]_vars

LastRemoveSucceeded ==
    /\ calls # <<>>
    /\ calls[Len(calls)].op = "removeImageFromCollections"
    /\ calls[Len(calls)].ok

\* C2: after removeImageFromCollections(filename) returns success, no document
\* of the four collections has an images entry with that file name, and no
\* document with imageCount 0 or less exists.
C2_SymmetricRemoval ==
    LastRemoveSucceeded =>
        \A d \in AllDocuments(db) :
            /\ EntryCount(d, calls[Len(calls)].filename) = 0
            /\ d.imageCount > 0

\* a successful removal of a.jpg right after a.jpg was added to the Person and
\* Pet documents: the Person document is gone, b.jpg is left in the Pet document
C2_Witness ==
    /\ Len(calls) = 2
    /\ calls[1].op = "addImageToCollections" /\ calls[1].ok
    /\ calls[1].filename = "a.jpg"
    /\ LastRemoveSucceeded
    /\ calls[2].filename = "a.jpg"
    /\ db.Person = {}
    /\ \E d \in db.Pet : EntryCount(d, "b.jpg") > 0

LastCall == calls[Len(calls)]

\* C12 as stated: when the upsert into one destination fails, addImageToCollections
\* still adds the image to every other destination, addedTo lists those
\* destinations and errors lists the failed one.
C12_PartialFanout ==
    (calls # <<>> /\ LastCall.op = "addImageToCollections" /\ LastCall.failAt > 0) =>
        LET destinations == Destinations(LastCall.imageData.autoTags)
            others == {i \in 1..Len(destinations) : i # LastCall.failAt}
        IN /\ \A i \in others :
                 /\ \E k \in 1..Len(LastCall.results.addedTo) :
                       LastCall.results.addedTo[k] = destinations[i].label
                 /\ \E d \in db[destinations[i].model] :
                       d.key = destinations[i].key /\ EntryCount(d, LastCall.filename) > 0
           /\ Len(LastCall.results.addedTo) = Cardinality(others)
           /\ LastCall.results.errors = <<destinations[LastCall.failAt].label>>

\* C15 as stated: removeImageFromCollections(filename) leaves every document
\* that has no entry for filename as it is: same images, same imageCount, not
\* deleted.
C15_RemoveFrame ==
    [][(calls' # <<>> /\ calls'[Len(calls')].op = "removeImageFromCollections") =>
          \A m \in DOMAIN db : \A d \in db[m] :
              EntryCount(d, calls'[Len(calls')].filename) = 0 => d \in db'[m]]_vars

(***************************************************************************)
(* Classification                                                          *)
(***************************************************************************)
\* the last request classified an image
Classified ==
    calls # <<>> /\ calls[1].op \in {"upload", "updateTags"} /\ calls[1].status \in {200, 201}

\* the last request classified an image with the filename classifier
FilenameClassified ==
    Classified /\ calls[1].method \in {"analyzeEmbedding", "analyzeFilename"}

\* the file name, in lower case, contains a keyword of the lists
HasKeyword(filename, keywordLists) ==
    \E l \in 1..Len(keywordLists) : IncludesSome(toLowerCase(filename), keywordLists[l])

\* C7: when the filename classifier classifies a file name that contains a
\* vehicle keyword and a pet keyword, autoTags.vehicle and autoTags.pets are
\* both true and getAllFolderPaths returns both 'vehicles' and 'pets'.
C7_MultiLabel ==
    (/\ FilenameClassified
     /\ HasKeyword(calls[1].originalName, VehicleLists)
     /\ HasKeyword(calls[1].originalName, PetLists))
    => /\ calls[1].autoTags.vehicle
       /\ calls[1].autoTags.pets
       /\ SeqIncludes(getAllFolderPaths(calls[1].autoTags, calls[1].customTags), "vehicles")
       /\ SeqIncludes(getAllFolderPaths(calls[1].autoTags, calls[1].customTags), "pets")

\* an upload of my_dog_in_the_car.jpg classified by analyzeEmbedding
C7_Witness ==
    /\ FilenameClassified
    /\ calls[1].op = "upload"
    /\ calls[1].originalName = "my_dog_in_the_car.jpg"
    /\ calls[1].autoTags.vehicle
    /\ calls[1].autoTags.pets

HasFlag(autoTags) ==
    autoTags.vehicle \/ autoTags.pets \/ autoTags.nature \/ Truthy(autoTags.person_id)

\* C8: every AutoTags record a classification produces has at least one
\* entry in objects, and objects contains 'uncategorized' only when no
\* category flag (vehicle, pets, nature, person_id) is set.
C8_ObjectsNeverEmpty ==
    Classified =>
        /\ Len(calls[1].autoTags.objects) >= 1
        /\ SeqIncludes(calls[1].autoTags.objects, "uncategorized")
              => ~HasFlag(calls[1].autoTags)

\* the maximal runs of letters and digits of the file name, in lower case
\* and with the separators _ - . read as spaces
RECURSIVE Words(_, _)
Words(s, word) ==
    IF s = "" THEN (IF word = "" THEN {} ELSE {word})
    ELSE IF IsWordChar(Head(s))
         THEN Words(Tail(s), word \o Head(s))
         ELSE (IF word = "" THEN {} ELSE {word}) \cup Words(Tail(s), "")

WholeWords(filename) == Words(ReplaceSeparators(toLowerCase(filename)), "")

\* C9: when analyzeEmbedding classifies a file name, the keyword of the
\* person-name list that matches it, if any, is a whole word of the file
\* name; and mercedes_benz.jpg is classified as vehicle and not as person.
C9_StrictNames ==
    (Classified /\ calls[1].method = "analyzeEmbedding") =>
        LET filename == calls[1].originalName
            nameMatch == filenameIndex[filename].keywords.name
        IN /\ nameMatch # null => nameMatch \in WholeWords(filename)
           /\ filename = "mercedes_benz.jpg" =>
                 /\ calls[1].autoTags.vehicle
                 /\ calls[1].autoTags.person_id = null

\* an upload of mercedes_benz.jpg classified by analyzeEmbedding as vehicle only
C9_Witness ==
    /\ Classified
    /\ calls[1].method = "analyzeEmbedding"
    /\ calls[1].originalName = "mercedes_benz.jpg"
    /\ calls[1].autoTags.vehicle
    /\ calls[1].autoTags.person_id = null

\* an upload of a file whose name holds a person name as a whole word
C9_WitnessName ==
    /\ Classified
    /\ calls[1].method = "analyzeEmbedding"
    /\ calls[1].originalName = "tommy cat.JPG"
    /\ filenameIndex["tommy cat.JPG"].keywords.name = "tommy"
    /\ calls[1].autoTags.person_id # null

(***************************************************************************)
(* Folder paths                                                            *)
(***************************************************************************)
FolderCall == calls # <<>> /\ calls[1].op = "getAllFolderPaths"

\* the category folders in the fixed order, then one folder per listed tag
ExpectedFolders(autoTags, tags) ==
    (IF autoTags.vehicle THEN <<"vehicles">> ELSE <<>>)
    \o (IF autoTags.pets THEN <<"pets">> ELSE <<>>)
    \o (IF autoTags.nature THEN <<"nature">> ELSE <<>>)
    \o (IF autoTags.person_id # null THEN <<"people/" \o autoTags.person_id>> ELSE <<>>)
    \o [i \in 1..Len(tags) |-> "tags/" \o tags[i]]

FoldersAre(expected) ==
    /\ calls[1].folders = (IF expected = <<>> THEN <<"uncategorized">> ELSE expected)
    /\ (calls[1].folders = <<"uncategorized">>) <=> (expected = <<>>)
    /\ Len(calls[1].folders) >= 1
    /\ calls[1].folderPath = calls[1].folders[1]

NonEmptyTags(customTags) == SelectSeq(customTags, LAMBDA tag : tag # "")

TrimmedTags(customTags) ==
    SelectSeq([i \in 1..Len(customTags) |-> trim(customTags[i])], LAMBDA tag : tag # "")

\* C10 as stated: getAllFolderPaths returns 'vehicles', 'pets', 'nature',
\* 'people/<person_id>' for the flags that are set, in this order, then
\* 'tags/<tag>' for each non-empty custom tag in input order; it returns the
\* single folder 'uncategorized' exactly when that list is empty; the result
\* is never empty and determineFolderPath is its first element.
C10_DestinationsNonEmpty ==
    FolderCall =>
        FoldersAre(ExpectedFolders(calls[1].autoTags, NonEmptyTags(calls[1].customTags)))

\* C10 amended: the same, with 'tags/<trimmed tag>' for each custom tag that
\* is non-empty after trimming its surrounding whitespace.
C10_Destinations ==
    FolderCall =>
        FoldersAre(ExpectedFolders(calls[1].autoTags, TrimmedTags(calls[1].customTags)))

\* a call with every flag set, a padded tag, a blank tag and a plain tag
C10_Witness ==
    /\ FolderCall
    /\ calls[1].autoTags.vehicle /\ calls[1].autoTags.pets /\ calls[1].autoTags.nature
    /\ calls[1].autoTags.person_id = "person_0042"
    /\ calls[1].customTags = <<" beach ", " ", "my dog">>
    /\ calls[1].folders =
         <<"vehicles", "pets", "nature", "people/person_0042", "tags/beach", "tags/my dog">>

\* a call with no flag set and only a blank tag
C10_WitnessUncategorized ==
    /\ FolderCall
    /\ ~HasFlag(calls[1].autoTags)
    /\ calls[1].customTags = <<" ">>
    /\ calls[1].folders = <<"uncategorized">>

(***************************************************************************)
(* Re-tagging and the custom-tag override                                  *)
(***************************************************************************)
\* the collections the AutoTags send an image to
ImpliedCollections(autoTags) ==
    {m \in {"Person"} : Truthy(autoTags.person_id)}
    \cup {m \in {"Pet"} : autoTags.pets}
    \cup {m \in {"Nature"} : autoTags.nature \/ ~HasFlag(autoTags)}
    \cup {m \in {"Vehicle"} : autoTags.vehicle}

Retagged == calls # <<>> /\ calls[1].op = "updateTags" /\ calls[1].status = 200

CategoryTagsOf(tags) == SelectSeq(tags, LAMBDA tag : IncludesSome(tag, CategoryTags))

\* the category flags a tag implies
ImpliedFlags(tag) ==
    [person  |-> IncludesSome(tag, <<"person", "family", "portrait", "selfie">>),
     pets    |-> IncludesSome(tag, <<"pet", "dog", "cat", "animal">>),
     nature  |-> IncludesSome(tag, <<"nature", "flower", "tree", "landscape", "sunset", "beach">>),
     vehicle |-> IncludesSome(tag, <<"vehicle", "car", "bike", "truck">>)]

FlagsOf(autoTags) ==
    [person |-> autoTags.person_id # null, pets |-> autoTags.pets,
     nature |-> autoTags.nature, vehicle |-> autoTags.vehicle]

Overridden ==
    /\ calls # <<>>
    /\ calls[1].op = "upload"
    /\ CategoryTagsOf(calls[1].requestTags) # <<>>

FromRegistry(personId) ==
    personId # null =>
        \E i \in 1..Len(personEmbeddingStore) : personEmbeddingStore[i].personId = personId

\* C16 as stated: an upload with custom tags that name a category gets
\* exactly the flags that these tags imply, none from the label source or
\* the file name, and its person_id comes from the registry.
C16_OverrideAllTags ==
    Overridden =>
        /\ FlagsOf(calls[1].autoTags) =
              [f \in {"person", "pets", "nature", "vehicle"} |->
                 \E i \in 1..Len(CategoryTagsOf(calls[1].requestTags)) :
                    ImpliedFlags(CategoryTagsOf(calls[1].requestTags)[i])[f]]
        /\ FromRegistry(calls[1].autoTags.person_id)

\* C16 amended: the upload gets exactly the flags implied by the first custom
\* tag that names a category, none from the later tags, the label source or
\* the file name, and its person_id comes from the registry.
C16_OverrideFirstTag ==
    Overridden =>
        /\ FlagsOf(calls[1].autoTags) = ImpliedFlags(CategoryTagsOf(calls[1].requestTags)[1])
        /\ FromRegistry(calls[1].autoTags.person_id)

\* an upload of my_dog_in_the_car.jpg tagged family: person only
C16_Witness ==
    /\ Overridden
    /\ calls[1].originalName = "my_dog_in_the_car.jpg"
    /\ calls[1].requestTags = <<"family">>
    /\ calls[1].autoTags.person_id = "person_0001"
    /\ ~calls[1].autoTags.pets /\ ~calls[1].autoTags.vehicle

\* an upload tagged dog and car: pets only
C16_WitnessTwoTags ==
    /\ Overridden
    /\ calls[1].requestTags = <<"dog", "car">>
    /\ calls[1].autoTags.pets
    /\ ~calls[1].autoTags.vehicle

(***************************************************************************)
(* Requests for unknown images, label-source failures, organize            *)
(***************************************************************************)
\* C13: a DELETE, re-tag or organize request for a file name that no
\* collection holds answers 404 and leaves every category document unchanged.
C13_NotFound ==
    [][(/\ clip' = clip
        /\ calls' # <<>>
        /\ calls'[1].op \in {"delete", "updateTags", "organize"}
        /\ calls'[1].filename # ""
        /\ calls'[1].filename \notin StoredFilenames(db))
       => (calls'[1].status = 404 /\ db' = db)]_vars

\* the outcomes of the last request for the images whose label source was
\* unavailable, threw or returned nothing
LabelSourceFailures ==
    IF calls = <<>> THEN {}
    ELSE IF calls[1].op = "upload"
    THEN {r \in {calls[1]} : r.labelSource \in {"unavailable", "throws", "nothing"}}
    ELSE IF calls[1].op \in {"reprocess", "reorganize"}
    THEN {r \in Range(calls[1].results) : r.labelSource \in {"unavailable", "throws", "nothing"}}
    ELSE {}

\* the entries stored for a file name
Entries(database, filename) ==
    UNION {{d.images[i] : i \in {j \in 1..Len(d.images) : d.images[j].filename = filename}} :
              d \in AllDocuments(database)}

C17_WitnessUpload ==
    /\ calls # <<>>
    /\ calls[1].op = "upload"
    /\ \E r \in LabelSourceFailures : r.labelSource = "nothing" /\ r.method = "hash-fallback"

C17_WitnessReprocess ==
    /\ calls # <<>>
    /\ calls[1].op = "reprocess"
    /\ \E r \in LabelSourceFailures : r.labelSource = "unavailable"

\* C20: after an organize request completes, every image it organized has
\* organized = true and organizedPaths holds, in the order of
\* getAllFolderPaths(autoTags, tags), one path per destination, each the path
\* of a copy that exists under organized/.
C20_OrganizeResult ==
    (calls # <<>> /\ calls[1].op = "organize" /\ calls[1].status = 200) =>
        \A r \in calls[1].results : \A e \in Entries(db, r.filename) :
            /\ e.organized
            /\ e.organizedPaths = TargetPaths(r.filename, getAllFolderPaths(e.autoTags, e.tags))
            /\ Range(e.organizedPaths) \subseteq files.organized

(***************************************************************************)
(* Model loads                                                             *)
(***************************************************************************)
\* C14: whatever the interleaving of initialize calls and classification
\* requests while a model loads, CLIPTagger starts at most one load, no
\* second MobileNet load is started while one is in flight, and a call that
\* arrives during a load gets the promise of that load or classifies without
\* the model.
C14_SingleLoad ==
    /\ loads.clipStarted <= 1
    /\ loads.mobilenetPending <= 1
    /\ (calls # <<>> /\ calls[1].op = "initialize" /\ calls[1].pending)
          => calls[1].outcome = "initPromise"
    /\ (calls # <<>> /\ calls[1].op = "initializeModel" /\ calls[1].mobilenetPending > 0)
          => calls[1].outcome # "load"

\* the part of C14 that is about CLIPTagger
C14_ClipSingleLoad ==
    /\ loads.clipStarted <= 1
    /\ (calls # <<>> /\ calls[1].op = "initialize" /\ calls[1].pending)
          => calls[1].outcome = "initPromise"
    /\ (calls # <<>> /\ calls[1].op = "classify" /\ calls[1].pending)
          => calls[1].outcome = "analyzeEmbedding"

(***************************************************************************)
(* Concurrent uploads                                                      *)
(***************************************************************************)
\* two uploads answered, the second begun before the first was answered,
\* with the same embedding and both classified as a person
ConcurrentPersons ==
    /\ Len(calls) = 2
    /\ calls[1].inFlight > 0
    /\ calls[1].embedding = calls[2].embedding
    /\ calls[1].autoTags.person_id # null
    /\ calls[2].autoTags.person_id # null

\* C18: two concurrent uploads with the same embedding that are both
\* classified as a person get the same personId, and the registry holds one
\* identity for them.
C18_AtomicResolve ==
    ConcurrentPersons =>
        /\ calls[1].autoTags.person_id = calls[2].autoTags.person_id
        /\ Cardinality({k \in 1..Len(personEmbeddingStore) :
              personEmbeddingStore[k].personId = calls[1].autoTags.person_id}) = 1

(***************************************************************************)
(* Files and lists                                                         *)
(***************************************************************************)
\* the paths under organized/ that the stored images are to have copies at
DestinationPaths(database) ==
    UNION {UNION {Range(TargetPaths(filename, getAllFolderPaths(e.autoTags, e.tags))) :
                     e \in Entries(database, filename)} :
              filename \in StoredFilenames(database)}

EndsWith(path, name) ==
    Len(path) >= Len(name) /\ SubSeq(path, Len(path) - Len(name) + 1, Len(path)) = name

\* C21: after any sequence of upload, organize, re-tag and delete requests,
\* every copy under organized/ belongs to a stored image whose destinations
\* include its folder, and after a delete no copy of the deleted file is left
\* in uploads/ or under organized/.
C21_FilesConsistent ==
    /\ files.organized \subseteq DestinationPaths(db)
    /\ (calls # <<>> /\ calls[1].op = "delete" /\ calls[1].status = 200) =>
          /\ calls[1].filename \notin files.uploads
          /\ \A path \in files.organized : ~EndsWith(path, "/" \o calls[1].filename)

\* the file names with an entry in the collection of a category
HeldBy(database, category) ==
    {filename \in StoredFilenames(database) :
        \/ category = "person" /\ \E d \in database.Person : EntryCount(d, filename) > 0
        \/ category = "pet" /\ \E d \in database.Pet : EntryCount(d, filename) > 0
        \/ category = "vehicle" /\ \E d \in database.Vehicle : EntryCount(d, filename) > 0
        \/ category = "nature" /\ \E d \in database.Nature :
              d.key # "uncategorized" /\ EntryCount(d, filename) > 0
        \/ category = "uncategorized" /\ \E d \in database.Nature :
              d.key = "uncategorized" /\ EntryCount(d, filename) > 0}

\* C30: the image list filtered by a category holds, once each, exactly the
\* file names with an entry in the collection of that category.
C30_ListingComplete ==
    (calls # <<>> /\ calls[1].op = "getImages") =>
        /\ {image.filename : image \in calls[1].images} = HeldBy(db, calls[1].category)
        /\ Cardinality(calls[1].images) = Cardinality(HeldBy(db, calls[1].category))

(***************************************************************************)
(* Embeddings and hashes                                                   *)
(***************************************************************************)
\* C22: a findOrCreatePersonId call with an embedding of fewer than 8
\* elements fails: it returns no personId, mints no identity and stores no
\* NaN signature.
C22_ShortEmbeddingRejected ==
    \A k \in 1..Len(calls) :
        (calls[k].op = "findOrCreatePersonId" /\ Len(calls[k].embedding) < 8) =>
            /\ calls[k].personId = null
            /\ calls[k].after = calls[k].before
            /\ \A i \in 1..Len(calls[k].after) : ~IsNaN(calls[k].after[i].signature)

\* the category of a value of abs(hash) % 100
BucketCategory(v) ==
    IF v < 25 THEN "nature" ELSE IF v < 50 THEN "pet" ELSE IF v < 75 THEN "person" ELSE "vehicle"

\* the flags of an AutoTags record that has exactly this category
HasOnly(autoTags, category) ==
    FlagsOf(autoTags) = [person |-> category = "person", pets |-> category = "pet",
                         nature |-> category = "nature", vehicle |-> category = "vehicle"]

NoKeyword(filename) ==
    \A k \in DOMAIN filenameIndex[filename].keywords :
        filenameIndex[filename].keywords[k] = null

\* the last upload was classified by a hash: no keyword of the file name
\* matched and the label source gave no tag
HashClassified ==
    /\ calls # <<>>
    /\ calls[1].op = "upload"
    /\ calls[1].labelSource \in {"unavailable", "throws", "nothing"}
    /\ \/ calls[1].method = "hash-fallback"
       \/ calls[1].method = "analyzeEmbedding" /\ NoKeyword(calls[1].originalName)

\* C23: an image classified by the hash fallback gets exactly one category,
\* that of abs(h) % 100 in the buckets [0,25) nature, [25,50) pet, [50,75)
\* person, [75,100) vehicle, h being the hash of the file name or of the file
\* name and the embedding.
C23_HashBuckets ==
    HashClassified =>
        \E e \in Entries(db, calls[1].filename) :
            \/ HasOnly(calls[1].autoTags,
                       BucketCategory(AbsMod(filenameIndex[calls[1].originalName].hash, 100)))
            \/ HasOnly(calls[1].autoTags,
                       BucketCategory(AbsMod(HashEmbedding(filenameIndex[calls[1].originalName].hash,
                                                           e.embedding, 1), 100)))

\* the part of C23 that is about ImageProcessor.classifyByEmbedding
C23_EmbeddingBuckets ==
    (HashClassified /\ calls[1].method = "analyzeEmbedding") =>
        \E e \in Entries(db, calls[1].filename) :
            HasOnly(calls[1].autoTags,
                    BucketCategory(AbsMod(HashEmbedding(filenameIndex[calls[1].originalName].hash,
                                                        e.embedding, 1), 100)))

\* the destination folders of the category documents that hold the file name
CollectionFolders(database, filename) ==
    {"people/" \o d.key : d \in {p \in database.Person : EntryCount(p, filename) > 0}}
    \cup {"pets" : d \in {p \in database.Pet : EntryCount(p, filename) > 0}}
    \cup {d.key : d \in {p \in database.Nature : EntryCount(p, filename) > 0}}
    \cup {"vehicles" : d \in {p \in database.Vehicle : EntryCount(p, filename) > 0}}

Synced ==
    /\ calls # <<>>
    /\ calls[1].op \in {"upload", "updateTags"}
    /\ calls[1].status \in {200, 201}

\* C24: after an image is stored, the collections that hold it are those of
\* its destinations: one for every folder of getAllFolderPaths(autoTags,
\* customTags), the tag folders and uncategorized included.
C24_SyncCoversDestinations ==
    Synced =>
        \A e \in Entries(db, calls[1].filename) :
            CollectionFolders(db, calls[1].filename)
                = Range(getAllFolderPaths(e.autoTags, e.tags))

\* C26: every category document has an imageCount equal to the number of
\* entries of its images array.
C26_CountMatchesContent ==
    \A d \in AllDocuments(db) : d.imageCount = Len(d.images)

\* C27: every person id stored in the AutoTags of an entry is an identity
\* of the registry, one that getTrackedPersons lists.
C27_StoredPersonIdsRegistered ==
    \A filename \in StoredFilenames(db) : \A e \in Entries(db, filename) :
        e.autoTags.person_id # null =>
            \E i \in 1..Len(getTrackedPersons(personEmbeddingStore)) :
                getTrackedPersons(personEmbeddingStore)[i] = e.autoTags.person_id

\* C29: PUT tags with the tags the stored image already has leaves the image
\* in the same collections, with the same person id.
C29_RetagUnchangedTags ==
    [][(/\ calls' # <<>>
        /\ calls'[1].op = "updateTags"
        /\ calls'[1].status = 200
        /\ \A e \in Entries(db, calls'[1].filename) : e.tags = calls'[1].requestTags)
       => /\ CollectionFolders(db', calls'[1].filename) = CollectionFolders(db, calls'[1].filename)
          /\ {e.autoTags.person_id : e \in Entries(db', calls'[1].filename)}
                = {e.autoTags.person_id : e \in Entries(db, calls'[1].filename)}]_vars

\* C28: once the PUT tags requests in flight have completed, however their
\* steps interleaved, every document holds at most one entry for a file name
\* and its imageCount is the number of its entries.
C28_ConcurrentRetag ==
    (requests = <<>> /\ calls # <<>> /\ calls[1].op = "updateTags" /\ calls[1].status = 200) =>
        \A d \in AllDocuments(db) :
            /\ EntryCount(d, calls[1].filename) <= 1
            /\ d.imageCount = Len(d.images)

Rebuilt == calls # <<>> /\ calls[1].op \in {"reprocess", "reorganize"} /\ calls[1].status = 200

\* C25: when reprocess or reorganize completes, the file names with an
\* entry in some collection are the image files of the uploads directory, and
\* no document holds a file name twice.
C25_BulkRebuild ==
    Rebuilt =>
        /\ StoredFilenames(db) = files.uploads
        /\ \A d \in AllDocuments(db) : \A f \in files.uploads : EntryCount(d, f) <= 1

\* the same with the files that the extension filter of the rebuild lets through
C25_ListedFilesRebuilt ==
    Rebuilt =>
        /\ StoredFilenames(db) = {f \in files.uploads : IsImageFile(f)}
        /\ \A d \in AllDocuments(db) : \A f \in files.uploads : EntryCount(d, f) <= 1

====
